---- MODULE Spec2Model ----
(***************************************************************************)
(* Model of the SO101 teleoperation runtime (src/teleoperate.py): the main *)
(* thread ("coordinator") that connects one or two leader/follower pairs,  *)
(* starts one thread per pair and waits for them, and the per-pair session *)
(* operate_robot_pair.                                                     *)
(*                                                                         *)
(* Every call made on a device is appended to the pair's call log with the *)
(* source line of the call, so that ordering claims are statements about   *)
(* the log.  A device call of a session has three outcomes: it returns, it *)
(* raises an Exception, or it never returns; a connect() of the main       *)
(* thread returns or raises.  KeyboardInterrupt is delivered to the main   *)
(* thread only (CPython runs signal handlers in the main thread), at any   *)
(* position of the script.  Session threads are non-daemon: the process    *)
(* exits when the main thread and every started thread have ended.         *)
(***************************************************************************)
EXTENDS Integers, Sequences, FiniteSets, TLC

\* Bound: loop iterations (get_action/send_action pairs) the sessions of one
\* run complete, all sessions together.
MaxIter == 2

Pairs == {1, 2}
\* The poses a device reports.  The program only copies poses, it never
\* inspects them, so poses can be renamed freely: the pose the follower
\* reports at line 37 is named 1, and the leader then reports that pose again
\* or another one.
Positions == {1, 2}
ObservedPositions == {1}
\* The value of a call that has no argument and returns nothing.
NoValue == 0

VARIABLES
    pair2,            \* args: were all four pair-2 arguments given (line 104)
    mpc,              \* position of the main thread
    mi,               \* index of the main thread's current `for thread in threads`
    mainExc,          \* exception that ended the main thread, "none" if none
    threads,          \* the list `threads` (pair numbers, in list order)
    thread_args,      \* the args tuple of each thread of the list, same order
    stop_event,       \* threading.Event: is it set
    mlog,             \* what the main thread did with threads and the event
    interrupts,       \* number of KeyboardInterrupts delivered so far
    pc,               \* position of each session thread
    initial_position, \* local of operate_robot_pair
    action,           \* local of operate_robot_pair
    pending,          \* line of the exception in flight in the session, 0 if none
    escaped,          \* line of the exception that left operate_robot_pair, 0 if none
    calls             \* per pair: the calls made on its two devices, in order

teleopVars == <<pair2, mpc, mi, mainExc, threads, thread_args, stop_event,
               mlog, interrupts, pc, initial_position, action, pending,
               escaped, calls>>

mainVars == <<pair2, mpc, mi, mainExc, threads, thread_args, mlog, interrupts>>
sessVars == <<pc, initial_position, action, pending, escaped>>

\* One entry of a pair's call log.  val is the argument of send_action or the
\* value returned by get_observation/get_action; out is how the call ended.
Call(dev, op, line, val, out) ==
    [dev |-> dev, op |-> op, line |-> line, val |-> val, out |-> out]

Log(p, c) == calls' = [calls EXCEPT ![p] = Append(@, c)]

\* Completed in-loop send_action calls of session p (line 45).
IsLoopSend(c) == c.line = 45
Iterations(p) == Len(SelectSeq(calls[p], IsLoopSend))

\* The composite devices of src/multiarm (MultiSO101Follower and
\* MultiSO101Leader).  One composite object is modelled at a time.
VARIABLES
    device,           \* class of the composite: "follower", "leader"; "none" in
                      \* a run of the teleoperation script, which builds none
    arms,             \* keys of self.arms, in map (insertion) order
    cameras,          \* keys of self.cameras, in map order (follower only)
    invoked,          \* the handler of the composite that ran last, "none" if none
    given,            \* the mapping that handler was called with
    member_calls,     \* the calls that handler made on arms and cameras, in order
    returned,         \* the mapping the handler returned
    raised,           \* did the handler end by an exception of a member
    config_arms,      \* keys of config.arm_ports (leader: config.arms), in order
    config_cameras,   \* keys of config.cameras, in order (follower only)
    built,            \* has __init__ run
    connected,        \* the members (arms, cameras) whose connection is open
    calibrated        \* the arms that report is_calibrated

\* What the constructor is given and what the members are in.
memberVars == <<config_arms, config_cameras, built, connected, calibrated>>

compositeVars == <<device, arms, cameras, invoked, given, member_calls,
                   returned, raised, memberVars>>

\* The feature properties of a composite (cached_property), the command-line
\* tools calibrate_arm.py and setup_motors.py, and the recording scripts.
VARIABLES
    feature_cache,    \* the instance's cached_property entries: property name
                      \* to the dict object stored under it
    feature_objects,  \* number of feature dicts built so far
    feature_log,      \* what each access of a feature property returned, in order
    tool,             \* the tool that runs: "calibrate_arm", "setup_motors"; "none"
    tool_pc,          \* position of the tool
    tool_args,        \* the arguments arm_type, port, id the tool was called with
    tool_arm,         \* the device get_arm created, NoArm if none
    tool_calls,       \* the calls the tool made on that device, in order
    tool_exc,         \* the exception that ended the tool, "none" if none
    recorder,         \* the recording script that runs, "none" if none
    rpc,              \* position of the recording script
    NUM_EPISODES,     \* module constant of the multi-episode scripts
    episode_idx,      \* episode counter of the multi-episode scripts
    events,           \* the flags of the keyboard listener
    episode_buffer,   \* number of frames in the dataset's episode buffer
    num_episodes,     \* dataset.num_episodes: episodes saved
    last_call,        \* the latest call the script made on dataset or device
    rec_devices,      \* robot and teleop: "connected", "disconnected", "failed"
    rexc,             \* the call whose exception ended the script, "none" if none
    merge_pc,         \* position of merge_single_episodes, "done" when over
    episode_dirs,     \* argument of merge_single_episodes: the directories, in
                      \* order, each with what loading it gives
    push_to_hub,      \* argument of merge_single_episodes
    datasets,         \* local of merge_single_episodes: the validated datasets
    merged_with,      \* the list merge_datasets was called with, NotMerged if
                      \* it was not called
    pushed,           \* was push_to_hub() called
    merge_exc         \* the call whose exception left merge_single_episodes

featureVars == <<feature_cache, feature_objects, feature_log>>
toolVars == <<tool, tool_pc, tool_args, tool_arm, tool_calls, tool_exc>>
recorderVars == <<recorder, rpc, NUM_EPISODES, episode_idx, events,
                  episode_buffer, num_episodes, last_call, rec_devices, rexc>>
mergeVars == <<merge_pc, episode_dirs, push_to_hub, datasets, merged_with,
               pushed, merge_exc>>
scriptVars == <<featureVars, toolVars, recorderVars, mergeVars>>

vars == <<teleopVars, compositeVars, scriptVars>>

\* A dict with no key.
EmptyDict == <<>>

\* No composite call is on record.
NoCallOnRecord ==
    /\ invoked = "none"
    /\ given = EmptyDict
    /\ member_calls = <<>>
    /\ returned = EmptyDict
    /\ raised = FALSE

\* The teleoperation script before its first statement.
TeleopInit ==
    /\ pair2 \in BOOLEAN
    /\ mpc = "robot1_connect"
    /\ mi = 1
    /\ mainExc = "none"
    /\ threads = <<>>
    /\ thread_args = <<>>
    /\ stop_event = FALSE
    /\ mlog = <<>>
    /\ interrupts = 0
    /\ pc = [p \in Pairs |-> "idle"]
    /\ initial_position = [p \in Pairs |-> NoValue]
    /\ action = [p \in Pairs |-> NoValue]
    /\ pending = [p \in Pairs |-> 0]
    /\ escaped = [p \in Pairs |-> 0]
    /\ calls = [p \in Pairs |-> <<>>]

\* No feature property was read.
NoFeatures ==
    /\ feature_cache = <<>>
    /\ feature_objects = 0
    /\ feature_log = <<>>

\* get_arm created no device.
NoArm == <<>>

\* No command-line tool runs.
NoTool ==
    /\ tool = "none" /\ tool_pc = "done"
    /\ tool_args = <<>> /\ tool_arm = NoArm
    /\ tool_calls = <<>> /\ tool_exc = "none"

\* The keyboard listener's flags as init_keyboard_listener returns them.
NoEvents ==
    [stop_recording |-> FALSE, rerecord_episode |-> FALSE, exit_early |-> FALSE]

\* No recording script runs.
NoRecorder ==
    /\ recorder = "none" /\ rpc = "done"
    /\ NUM_EPISODES = 0 /\ episode_idx = 0
    /\ events = NoEvents
    /\ episode_buffer = 0 /\ num_episodes = 0
    /\ last_call = "none"
    /\ rec_devices = <<>>
    /\ rexc = "none"

\* merge_datasets was not called.
NotMerged == <<"not merged">>

\* merge_single_episodes does not run.
NoMerge ==
    /\ merge_pc = "done"
    /\ episode_dirs = <<>> /\ push_to_hub = FALSE
    /\ datasets = <<>> /\ merged_with = NotMerged
    /\ pushed = FALSE /\ merge_exc = "none"

\* Nothing but the program under study runs.
NoScripts == NoFeatures /\ NoTool /\ NoRecorder /\ NoMerge

\* No composite is configured or built.
NoComposite ==
    /\ device = "none" /\ arms = <<>> /\ cameras = <<>>
    /\ config_arms = <<>> /\ config_cameras = <<>>
    /\ built = FALSE /\ connected = {} /\ calibrated = {}
    /\ NoCallOnRecord

Init ==
    /\ TeleopInit
    /\ NoComposite
    /\ NoScripts

----------------------------------------------------------------------------
(* operate_robot_pair(robot, teleop_device, pair_name, stop_event)         *)

\* Mutant of GetObservation: the snapshot is taken inside the try, so its
\* exception leads to the finally block.
GetObservationInsideTry(p) ==
    /\ pc[p] = "obs"
    /\ \/ \E v \in ObservedPositions :
            /\ Log(p, Call("robot", "get_observation", 37, v, "ok"))
            /\ initial_position' = [initial_position EXCEPT ![p] = v]
            /\ pc' = [pc EXCEPT ![p] = "while"]
       \/ /\ Log(p, Call("robot", "get_observation", 37, NoValue, "raise"))
          /\ pc' = [pc EXCEPT ![p] = "finally"]
          /\ UNCHANGED initial_position
    /\ UNCHANGED <<compositeVars, scriptVars, mainVars, stop_event, action, pending,
                   escaped>>

\* line 37: initial_position = robot.get_observation(), outside the try.
GetObservation(p) ==
    /\ pc[p] = "obs"
    /\ \/ \E v \in ObservedPositions :
            /\ Log(p, Call("robot", "get_observation", 37, v, "ok"))
            /\ initial_position' = [initial_position EXCEPT ![p] = v]
            /\ pc' = [pc EXCEPT ![p] = "while"]
            /\ UNCHANGED escaped
       \/ /\ Log(p, Call("robot", "get_observation", 37, NoValue, "raise"))
          /\ pc' = [pc EXCEPT ![p] = "dead"]
          /\ escaped' = [escaped EXCEPT ![p] = 37]
          /\ UNCHANGED initial_position
       \/ /\ Log(p, Call("robot", "get_observation", 37, NoValue, "hang"))
          /\ pc' = [pc EXCEPT ![p] = "hung"]
          /\ UNCHANGED <<initial_position, escaped>>
    /\ UNCHANGED <<compositeVars, scriptVars, mainVars, stop_event, action, pending>>

\* Mutant of WhileTest: the event is polled only before the first iteration
\* (an `if` around a `while True`), never between iterations.
WhileTestOnce(p) ==
    /\ pc[p] = "while"
    /\ IF stop_event /\ Iterations(p) = 0
       THEN pc' = [pc EXCEPT ![p] = "finally"]
       ELSE /\ Iterations(1) + Iterations(2) < MaxIter
            /\ pc' = [pc EXCEPT ![p] = "get_action"]
    /\ UNCHANGED <<compositeVars, scriptVars, mainVars, stop_event, initial_position,
                   action, pending, escaped, calls>>

\* Mutant of WhileTest: the session consumes the signal, clearing the event
\* when it sees it set (stop_event.clear() on the way out of the loop).
WhileTestClears(p) ==
    /\ pc[p] = "while"
    /\ IF stop_event
       THEN /\ pc' = [pc EXCEPT ![p] = "finally"]
            /\ stop_event' = FALSE
       ELSE /\ Iterations(1) + Iterations(2) < MaxIter
            /\ pc' = [pc EXCEPT ![p] = "get_action"]
            /\ UNCHANGED stop_event
    /\ UNCHANGED <<compositeVars, scriptVars, mainVars, initial_position, action,
                   pending, escaped, calls>>

\* line 41: while not stop_event.is_set()
WhileTest(p) ==
    /\ pc[p] = "while"
    /\ IF stop_event
       THEN pc' = [pc EXCEPT ![p] = "finally"]
       ELSE /\ Iterations(1) + Iterations(2) < MaxIter
            /\ pc' = [pc EXCEPT ![p] = "get_action"]
    /\ UNCHANGED <<compositeVars, scriptVars, mainVars, stop_event, initial_position,
                   action, pending, escaped, calls>>

\* An exception raised at `line` inside the try body (lines 41-45).
RaiseInTry(p, line) ==
    /\ pending' = [pending EXCEPT ![p] = line]
    /\ pc' = [pc EXCEPT ![p] = "except"]

\* Mutant of GetAction: the action read is kept only when none is held yet,
\* so later iterations send an older action than the one just read.
GetActionKeepsFirst(p) ==
    /\ pc[p] = "get_action"
    /\ \/ \E v \in Positions :
            /\ Log(p, Call("teleop_device", "get_action", 43, v, "ok"))
            /\ action' = [action EXCEPT ![p] = IF @ = NoValue THEN v ELSE @]
            /\ pc' = [pc EXCEPT ![p] = "send_action"]
            /\ UNCHANGED pending
       \/ /\ Log(p, Call("teleop_device", "get_action", 43, NoValue, "raise"))
          /\ RaiseInTry(p, 43)
          /\ UNCHANGED action
       \/ /\ Log(p, Call("teleop_device", "get_action", 43, NoValue, "hang"))
          /\ pc' = [pc EXCEPT ![p] = "hung"]
          /\ UNCHANGED <<action, pending>>
    /\ UNCHANGED <<compositeVars, scriptVars, mainVars, stop_event, initial_position,
                   escaped>>

\* line 43: action = teleop_device.get_action()
GetAction(p) ==
    /\ pc[p] = "get_action"
    /\ \/ \E v \in Positions :
            /\ Log(p, Call("teleop_device", "get_action", 43, v, "ok"))
            /\ action' = [action EXCEPT ![p] = v]
            /\ pc' = [pc EXCEPT ![p] = "send_action"]
            /\ UNCHANGED pending
       \/ /\ Log(p, Call("teleop_device", "get_action", 43, NoValue, "raise"))
          /\ RaiseInTry(p, 43)
          /\ UNCHANGED action
       \/ /\ Log(p, Call("teleop_device", "get_action", 43, NoValue, "hang"))
          /\ pc' = [pc EXCEPT ![p] = "hung"]
          /\ UNCHANGED <<action, pending>>
    /\ UNCHANGED <<compositeVars, scriptVars, mainVars, stop_event, initial_position,
                   escaped>>

\* Mutant of SendAction: the loop keeps the pose it last sent as the pose to
\* return to, overwriting the snapshot of line 37.
SendActionMovesHome(p) ==
    /\ pc[p] = "send_action"
    /\ \/ /\ Log(p, Call("robot", "send_action", 45, action[p], "ok"))
          /\ pc' = [pc EXCEPT ![p] = "while"]
          /\ initial_position' = [initial_position EXCEPT ![p] = action[p]]
          /\ UNCHANGED pending
       \/ /\ Log(p, Call("robot", "send_action", 45, action[p], "raise"))
          /\ RaiseInTry(p, 45)
          /\ UNCHANGED initial_position
       \/ /\ Log(p, Call("robot", "send_action", 45, action[p], "hang"))
          /\ pc' = [pc EXCEPT ![p] = "hung"]
          /\ UNCHANGED <<pending, initial_position>>
    /\ UNCHANGED <<compositeVars, scriptVars, mainVars, stop_event, action, escaped>>

\* line 45: robot.send_action(action)
SendAction(p) ==
    /\ pc[p] = "send_action"
    /\ \/ /\ Log(p, Call("robot", "send_action", 45, action[p], "ok"))
          /\ pc' = [pc EXCEPT ![p] = "while"]
          /\ UNCHANGED pending
       \/ /\ Log(p, Call("robot", "send_action", 45, action[p], "raise"))
          /\ RaiseInTry(p, 45)
       \/ /\ Log(p, Call("robot", "send_action", 45, action[p], "hang"))
          /\ pc' = [pc EXCEPT ![p] = "hung"]
          /\ UNCHANGED pending
    /\ UNCHANGED <<compositeVars, scriptVars, mainVars, stop_event, initial_position,
                   action, escaped>>

\* Mutant of ExceptHandler: a try/finally with no except clause.  The
\* finally block runs with the loop's exception still in flight.
ExceptHandlerMissing(p) ==
    /\ pc[p] = "except"
    /\ pc' = [pc EXCEPT ![p] = "finally"]
    /\ UNCHANGED <<compositeVars, scriptVars, mainVars, stop_event, initial_position,
                   action, pending, escaped, calls>>

\* Mutant of ExceptHandler: the handler also signals the shared event, as
\* if one pair's error were to shut every session down.
ExceptHandlerStopsAll(p) ==
    /\ pc[p] = "except"
    /\ pending' = [pending EXCEPT ![p] = 0]
    /\ pc' = [pc EXCEPT ![p] = "finally"]
    /\ stop_event' = TRUE
    /\ UNCHANGED <<compositeVars, scriptVars, mainVars, initial_position, action,
                   escaped, calls>>

\* lines 46-47: except Exception as e: print(...).  The exception is handled:
\* nothing is in flight when the finally block starts.
ExceptHandler(p) ==
    /\ pc[p] = "except"
    /\ pending' = [pending EXCEPT ![p] = 0]
    /\ pc' = [pc EXCEPT ![p] = "finally"]
    /\ UNCHANGED <<compositeVars, scriptVars, mainVars, stop_event, initial_position,
                   action, escaped, calls>>

\* An exception raised at `line` inside the finally block (lines 50-53)
\* leaves the function: the rest of the block is not executed.
RaiseInFinally(p, line) ==
    /\ pc' = [pc EXCEPT ![p] = "dead"]
    /\ escaped' = [escaped EXCEPT ![p] = line]

\* line 51: robot.send_action(initial_position) and its three outcomes.
SendInitialPosition(p) ==
    \/ /\ Log(p, Call("robot", "send_action", 51, initial_position[p], "ok"))
       /\ pc' = [pc EXCEPT ![p] = "robot_disconnect"]
       /\ UNCHANGED escaped
    \/ /\ Log(p, Call("robot", "send_action", 51, initial_position[p], "raise"))
       /\ RaiseInFinally(p, 51)
    \/ /\ Log(p, Call("robot", "send_action", 51, initial_position[p], "hang"))
       /\ pc' = [pc EXCEPT ![p] = "hung"]
       /\ UNCHANGED escaped

\* Mutant of RestoreInitialPosition: the restoring send placed in an `else`
\* clause of the try, so that it is skipped when the loop ended by an
\* exception.
RestoreOnlyWithoutError(p) ==
    /\ pc[p] = "finally"
    /\ IF calls[p][Len(calls[p])].out = "raise"
       THEN /\ pc' = [pc EXCEPT ![p] = "robot_disconnect"]
            /\ UNCHANGED <<escaped, calls>>
       ELSE SendInitialPosition(p)
    /\ UNCHANGED <<compositeVars, scriptVars, mainVars, stop_event, initial_position,
                   action, pending>>

\* Mutant of RestoreInitialPosition: the finally block written with its
\* first two statements exchanged, robot.disconnect() and then
\* robot.send_action(initial_position).
DisconnectThenRestore(p) ==
    /\ pc[p] = "finally"
    /\ calls' = [calls EXCEPT ![p] =
                    @ \o << Call("robot", "disconnect", 52, NoValue, "ok"),
                            Call("robot", "send_action", 51, initial_position[p], "ok") >>]
    /\ pc' = [pc EXCEPT ![p] = "teleop_disconnect"]
    /\ UNCHANGED <<compositeVars, scriptVars, mainVars, stop_event, initial_position,
                   action, pending, escaped>>

\* lines 48-51: finally: print(...); robot.send_action(initial_position)
RestoreInitialPosition(p) ==
    /\ pc[p] = "finally"
    /\ SendInitialPosition(p)
    /\ UNCHANGED <<compositeVars, scriptVars, mainVars, stop_event, initial_position,
                   action, pending>>

\* line 52: robot.disconnect()
RobotDisconnect(p) ==
    /\ pc[p] = "robot_disconnect"
    /\ \/ /\ Log(p, Call("robot", "disconnect", 52, NoValue, "ok"))
          /\ pc' = [pc EXCEPT ![p] = "teleop_disconnect"]
          /\ UNCHANGED escaped
       \/ /\ Log(p, Call("robot", "disconnect", 52, NoValue, "raise"))
          /\ RaiseInFinally(p, 52)
       \/ /\ Log(p, Call("robot", "disconnect", 52, NoValue, "hang"))
          /\ pc' = [pc EXCEPT ![p] = "hung"]
          /\ UNCHANGED escaped
    /\ UNCHANGED <<compositeVars, scriptVars, mainVars, stop_event, initial_position,
                   action, pending>>

\* End of the finally block: an exception still in flight is re-raised,
\* otherwise the function returns.
EndFinally(p) ==
    IF pending[p] = 0
    THEN /\ pc' = [pc EXCEPT ![p] = "done"]
         /\ UNCHANGED escaped
    ELSE /\ pc' = [pc EXCEPT ![p] = "dead"]
         /\ escaped' = [escaped EXCEPT ![p] = pending[p]]

\* line 53: teleop_device.disconnect(), the last statement of the function.
TeleopDisconnect(p) ==
    /\ pc[p] = "teleop_disconnect"
    /\ \/ /\ Log(p, Call("teleop_device", "disconnect", 53, NoValue, "ok"))
          /\ EndFinally(p)
       \/ /\ Log(p, Call("teleop_device", "disconnect", 53, NoValue, "raise"))
          /\ RaiseInFinally(p, 53)
       \/ /\ Log(p, Call("teleop_device", "disconnect", 53, NoValue, "hang"))
          /\ pc' = [pc EXCEPT ![p] = "hung"]
          /\ UNCHANGED escaped
    /\ UNCHANGED <<compositeVars, scriptVars, mainVars, stop_event, initial_position,
                   action, pending>>

Session(p) ==
    \/ GetObservation(p)
    \/ WhileTest(p)
    \/ GetAction(p)
    \/ SendAction(p)
    \/ ExceptHandler(p)
    \/ RestoreInitialPosition(p)
    \/ RobotDisconnect(p)
    \/ TeleopDisconnect(p)

----------------------------------------------------------------------------
(* The main thread: the body of `if __name__ == "__main__"`.               *)

Ended(p) == pc[p] \in {"done", "dead"}

\* The args of a Thread(target=operate_robot_pair, args=(...)): the objects
\* are named after the variables of the script that hold them (robot1 is
\* the object made at line 95, teleop_device1 at line 96, robot2 at line
\* 118, teleop_device2 at line 119, stop_event at line 79).
ThreadArgs(robot, teleop_device, pair_name) ==
    [robot |-> robot, teleop_device |-> teleop_device,
     pair_name |-> pair_name, stop_event |-> "stop_event"]

\* An exception leaves the main thread: nothing of the script runs after it.
MainRaise(exc) ==
    /\ mpc' = "crashed"
    /\ mainExc' = exc

\* lines 95, 97: robot1 = SO101Follower(...); robot1.connect()
ConnectRobot1 ==
    /\ mpc = "robot1_connect"
    /\ \/ /\ Log(1, Call("robot", "connect", 97, NoValue, "ok"))
          /\ mpc' = "teleop1_connect"
          /\ UNCHANGED mainExc
       \/ /\ Log(1, Call("robot", "connect", 97, NoValue, "raise"))
          /\ MainRaise("connect")
    /\ UNCHANGED <<compositeVars, scriptVars, pair2, mi, threads, thread_args, mlog,
                   interrupts, stop_event, sessVars>>

\* lines 96, 98, 101, 104: teleop_device1.connect(); threads = [Thread(pair 1)];
\* then the test whether pair 2 was given.
ConnectTeleop1 ==
    /\ mpc = "teleop1_connect"
    /\ \/ /\ Log(1, Call("teleop_device", "connect", 98, NoValue, "ok"))
          /\ threads' = <<1>>
          /\ thread_args' = <<ThreadArgs("robot1", "teleop_device1", "Pair 1")>>
          /\ mpc' = IF pair2 THEN "robot2_connect" ELSE "start"
          /\ UNCHANGED mainExc
       \/ /\ Log(1, Call("teleop_device", "connect", 98, NoValue, "raise"))
          /\ MainRaise("connect")
          /\ UNCHANGED <<threads, thread_args>>
    /\ UNCHANGED <<compositeVars, scriptVars, pair2, mi, mlog, interrupts, stop_event,
                   sessVars>>

\* lines 118, 120: robot2 = SO101Follower(...); robot2.connect()
ConnectRobot2 ==
    /\ mpc = "robot2_connect"
    /\ \/ /\ Log(2, Call("robot", "connect", 120, NoValue, "ok"))
          /\ mpc' = "teleop2_connect"
          /\ UNCHANGED mainExc
       \/ /\ Log(2, Call("robot", "connect", 120, NoValue, "raise"))
          /\ MainRaise("connect")
    /\ UNCHANGED <<compositeVars, scriptVars, pair2, mi, threads, thread_args, mlog,
                   interrupts, stop_event, sessVars>>

\* Mutant of ConnectTeleop2: the second thread is given pair 1's follower
\* (args=(robot1, teleop_device2, ...)).
ConnectTeleop2SharesRobot ==
    /\ mpc = "teleop2_connect"
    /\ \/ /\ Log(2, Call("teleop_device", "connect", 121, NoValue, "ok"))
          /\ threads' = Append(threads, 2)
          /\ thread_args' =
                Append(thread_args,
                       ThreadArgs("robot1", "teleop_device2", "Pair 2"))
          /\ mpc' = "start"
          /\ UNCHANGED mainExc
       \/ /\ Log(2, Call("teleop_device", "connect", 121, NoValue, "raise"))
          /\ MainRaise("connect")
          /\ UNCHANGED <<threads, thread_args>>
    /\ UNCHANGED <<compositeVars, scriptVars, pair2, mi, mlog, interrupts, stop_event,
                   sessVars>>

\* lines 119, 121, 124: teleop_device2.connect(); threads.append(Thread(pair 2))
ConnectTeleop2 ==
    /\ mpc = "teleop2_connect"
    /\ \/ /\ Log(2, Call("teleop_device", "connect", 121, NoValue, "ok"))
          /\ threads' = Append(threads, 2)
          /\ thread_args' =
                Append(thread_args,
                       ThreadArgs("robot2", "teleop_device2", "Pair 2"))
          /\ mpc' = "start"
          /\ UNCHANGED mainExc
       \/ /\ Log(2, Call("teleop_device", "connect", 121, NoValue, "raise"))
          /\ MainRaise("connect")
          /\ UNCHANGED <<threads, thread_args>>
    /\ UNCHANGED <<compositeVars, scriptVars, pair2, mi, mlog, interrupts, stop_event,
                   sessVars>>

\* One step of a `for thread in threads` loop of the main thread: on to the
\* next thread, or on to the statement `after` the loop.
NextThread(after) ==
    IF mi < Len(threads)
    THEN /\ mi' = mi + 1
         /\ UNCHANGED mpc
    ELSE /\ mi' = 1
         /\ mpc' = after

\* lines 128-129: for thread in threads: thread.start().  The try of line
\* 131 is entered when the loop is over.
StartThread ==
    /\ mpc = "start"
    /\ pc' = [pc EXCEPT ![threads[mi]] = "obs"]
    /\ mlog' = Append(mlog, [op |-> "start", thread |-> threads[mi]])
    /\ NextThread("join")
    /\ UNCHANGED <<compositeVars, scriptVars, pair2, mainExc, threads, thread_args,
                   interrupts, stop_event, initial_position, action, pending,
                   escaped, calls>>

\* lines 133-134, inside the try: thread.join() returns when the thread has
\* ended.  After the last join the script is over.
JoinThread ==
    /\ mpc = "join"
    /\ Ended(threads[mi])
    /\ mlog' = Append(mlog, [op |-> "join", thread |-> threads[mi]])
    /\ NextThread("end")
    /\ UNCHANGED <<compositeVars, scriptVars, pair2, mainExc, threads, thread_args,
                   interrupts, stop_event, sessVars, calls>>

\* KeyboardInterrupt arrives in the main thread.  Only lines 132-134 are
\* inside the try with the `except KeyboardInterrupt` clause; anywhere else
\* the exception ends the main thread.
KeyboardInterrupt ==
    /\ mpc \notin {"end", "crashed"}
    /\ interrupts' = interrupts + 1
    /\ IF mpc = "join"
       THEN /\ mpc' = "except"
            /\ mi' = 1
            /\ UNCHANGED mainExc
       ELSE /\ MainRaise("KeyboardInterrupt")
            /\ UNCHANGED mi
    /\ UNCHANGED <<compositeVars, scriptVars, pair2, threads, thread_args, mlog,
                   stop_event, sessVars, calls>>

\* Mutant of SetStopEvent: the handler goes on to the joins without setting
\* the event.
SetStopEventForgotten ==
    /\ mpc = "except"
    /\ mpc' = "grace"
    /\ UNCHANGED <<compositeVars, scriptVars, pair2, mi, mainExc, threads, thread_args,
                   mlog, interrupts, stop_event, sessVars, calls>>

\* lines 135-137: except KeyboardInterrupt: print(...); stop_event.set()
SetStopEvent ==
    /\ mpc = "except"
    /\ stop_event' = TRUE
    /\ mlog' = Append(mlog, [op |-> "set", thread |-> 0])
    /\ mpc' = "grace"
    /\ UNCHANGED <<compositeVars, scriptVars, pair2, mi, mainExc, threads, thread_args,
                   interrupts, sessVars, calls>>

\* Mutant of JoinThreadTimeout: join() with no timeout, which returns only
\* when the thread has ended.
JoinThreadNoTimeout ==
    /\ mpc = "grace"
    /\ Ended(threads[mi])
    /\ mlog' = Append(mlog, [op |-> "join_timeout", thread |-> threads[mi]])
    /\ NextThread("report")
    /\ UNCHANGED <<compositeVars, scriptVars, pair2, mainExc, threads, thread_args,
                   interrupts, stop_event, sessVars, calls>>

\* lines 139-140: thread.join(timeout=5.0) returns when the thread has ended
\* or when the timeout has expired, whichever is first; time is not modelled,
\* so it can return at any moment.
JoinThreadTimeout ==
    /\ mpc = "grace"
    /\ mlog' = Append(mlog, [op |-> "join_timeout", thread |-> threads[mi]])
    /\ NextThread("report")
    /\ UNCHANGED <<compositeVars, scriptVars, pair2, mainExc, threads, thread_args,
                   interrupts, stop_event, sessVars, calls>>

\* line 141: print("All sessions stopped"), the last statement of the script.
ReportStopped ==
    /\ mpc = "report"
    /\ mlog' = Append(mlog, [op |-> "report", thread |-> 0])
    /\ mpc' = "end"
    /\ UNCHANGED <<compositeVars, scriptVars, pair2, mi, mainExc, threads, thread_args,
                   interrupts, stop_event, sessVars, calls>>

Main ==
    \/ ConnectRobot1
    \/ ConnectTeleop1
    \/ ConnectRobot2
    \/ ConnectTeleop2
    \/ StartThread
    \/ JoinThread
    \/ SetStopEvent
    \/ JoinThreadTimeout
    \/ ReportStopped

Next ==
    \/ Main
    \/ KeyboardInterrupt
    \/ \E p \in Pairs : Session(p)

Spec == Init /\ [][Next]_vars

\* The operating system schedules every session thread that can run.
LiveSpec == Spec /\ \A p \in Pairs : WF_vars(Session(p))

\* The operating system also schedules the main thread: a statement of the
\* script that can run does run (a connect() returns or raises, a join with a
\* timeout returns at the latest when the timeout expires).
ShutdownSpec == LiveSpec /\ WF_vars(Main)

----------------------------------------------------------------------------
(* Reading the call log of pair p.                                         *)

\* Positions in p's log of the calls made at source line `line`.
At(p, line) == {i \in DOMAIN calls[p] : calls[p][i].line = line}
Called(p, line) == At(p, line) # {}
\* The call at `line` was made and raised.
Raised(p, line) == \E i \in At(p, line) : calls[p][i].out = "raise"
\* The loop of session p ended by an exception of its body.
LoopFailed(p) == Raised(p, 43) \/ Raised(p, 45)
\* operate_robot_pair has ended for p, by return or by an exception, after
\* its loop was over (that is, not from line 37).
EndedAfterLoop(p) == Ended(p) /\ escaped[p] # 37
\* Session p is past its loop: in the except clause or in the finally block,
\* or ended after it.
LeftLoop(p) ==
    \/ pc[p] \in {"except", "finally", "robot_disconnect", "teleop_disconnect",
                  "done"}
    \/ Called(p, 51)
\* Session p is in, or has been in, the finally block of lines 48-53.
InTeardown(p) ==
    \/ pc[p] \in {"finally", "robot_disconnect", "teleop_disconnect", "done"}
    \/ Called(p, 51)
\* Session p has made the three teardown calls of lines 51-53.
TeardownComplete(p) == Called(p, 51) /\ Called(p, 52) /\ Called(p, 53)
\* connect() returned on the device; disconnect() was called on it.
Connected(p, dev) ==
    \E i \in DOMAIN calls[p] :
        calls[p][i].dev = dev /\ calls[p][i].op = "connect" /\ calls[p][i].out = "ok"
DisconnectCalled(p, dev) ==
    \E i \in DOMAIN calls[p] :
        calls[p][i].dev = dev /\ calls[p][i].op = "disconnect"
ConnectRaised(p) ==
    \E i \in DOMAIN calls[p] :
        calls[p][i].op = "connect" /\ calls[p][i].out = "raise"
\* Positions in the main thread's log of the steps `op`.
Did(op) == {i \in DOMAIN mlog : mlog[i].op = op}
Started(p) == pc[p] # "idle"
\* The process is over: the main thread and every started (non-daemon)
\* thread have ended.
ProcessExited ==
    /\ mpc \in {"end", "crashed"}
    /\ \A p \in Pairs : Started(p) => Ended(p)

----------------------------------------------------------------------------
(* Claims                                                                  *)

\* C1: whatever the number of loop iterations, and whether the loop ended by
\* the stop event or by an exception of its body, the follower gets
\* send_action(initial_position) exactly once: never twice, once when the
\* function has ended after its loop, with the snapshot as argument, after
\* every in-loop send_action and before robot.disconnect().
C1_RestoreExactlyOnce ==
    \A p \in Pairs :
        LET restores == At(p, 51)
        IN  /\ Cardinality(restores) <= 1
            /\ EndedAfterLoop(p) => Cardinality(restores) = 1
            /\ \A i \in restores :
                  /\ calls[p][i].dev = "robot"
                  /\ calls[p][i].op = "send_action"
                  /\ calls[p][i].val = initial_position[p]
                  /\ \A j \in DOMAIN calls[p] : calls[p][j].line = 45 => j < i
            /\ \A k \in DOMAIN calls[p] :
                  calls[p][k].line = 52 => \E i \in restores : i < k

\* C1 witness: a session that ran an iteration, whose loop then ended by an
\* exception, and that has returned after restoring and disconnecting.
C1_Witness ==
    \E p \in Pairs :
        /\ pc[p] = "done"
        /\ Iterations(p) >= 1
        /\ LoopFailed(p)
        /\ Cardinality(At(p, 51)) = 1
        /\ Called(p, 52)

\* C2 (as claimed): when the function has ended, a restoring send that
\* raised was still followed by both disconnects, and a follower disconnect
\* that raised was still followed by the leader's disconnect.
C2_TeardownStepsIndependent ==
    \A p \in Pairs :
        Ended(p) =>
            /\ Raised(p, 51) => Called(p, 52) /\ Called(p, 53)
            /\ Raised(p, 52) => Called(p, 53)

\* C3: an exception of get_action (line 43) or of the in-loop send_action
\* (line 45) never leaves operate_robot_pair, and the call the session makes
\* next is the restoring send_action of line 51.
C3_LoopErrorCaught ==
    \A p \in Pairs :
        /\ escaped[p] \notin {43, 45}
        /\ \A i \in DOMAIN calls[p] :
              (calls[p][i].line \in {43, 45} /\ calls[p][i].out = "raise") =>
                  IF i = Len(calls[p])
                  THEN pc[p] \in {"except", "finally"}
                  ELSE calls[p][i + 1].line = 51

\* C3 witness: a session whose loop body raised and that has gone through
\* the whole teardown and returned.
C3_Witness ==
    \E p \in Pairs :
        /\ LoopFailed(p)
        /\ pc[p] = "done"
        /\ Called(p, 51) /\ Called(p, 52) /\ Called(p, 53)

\* C4 (as claimed): once the coordinator has been interrupted, has run its
\* shutdown to the end (line 141) and the process is over, disconnect() has
\* been called on every device on which connect() had succeeded.
C4_InterruptDisconnectsAll ==
    (interrupts >= 1 /\ Did("report") # {} /\ ProcessExited) =>
        \A p \in Pairs : \A dev \in {"robot", "teleop_device"} :
            Connected(p, dev) => DisconnectCalled(p, dev)

\* C5: the stop event is set by the coordinator's interrupt handler only,
\* never by a session; a session leaves its loop only when the event is set
\* or when its own loop body raised; and the step in which a session's loop
\* body raises, or in which the exception is handled, changes neither the
\* event nor anything of the other session.
C5_FaultIsolation ==
    /\ [](\A p \in Pairs :
            /\ stop_event => Did("set") # {}
            /\ LeftLoop(p) => (stop_event \/ LoopFailed(p)))
    /\ [][\A p \in Pairs :
            (pending'[p] # pending[p]) =>
                /\ stop_event' = stop_event
                /\ \A q \in Pairs \ {p} :
                      /\ pc'[q] = pc[q]
                      /\ calls'[q] = calls[q]
                      /\ action'[q] = action[q]
                      /\ initial_position'[q] = initial_position[q]]_vars

\* C5 witness: one session's loop body has raised and that session is past
\* its loop, while the other is still in an iteration that began after it
\* had completed one, with the event not set.
C5_Witness ==
    \E p \in Pairs :
        /\ LoopFailed(p) /\ LeftLoop(p)
        /\ ~stop_event
        /\ pc[3 - p] \in {"get_action", "send_action"}
        /\ Iterations(3 - p) >= 1

\* C6 (as claimed): in a two-pair run that a connect() error of one pair has
\* ended, the other pair's session has been started.
C6_ConnectFailureIsolated ==
    \A p \in Pairs :
        (pair2 /\ mpc = "crashed" /\ mainExc = "connect" /\ ConnectRaised(p)) =>
            Started(3 - p)

\* C7: once the stop event is set no session begins another loop iteration
\* (the iteration in progress may complete: at most one more get_action and
\* one more send_action), and every session that is in its loop, or about
\* to enter it, when the event is set reaches the finally block, unless one
\* of its device calls never returns or its first get_observation raises.
C7_StopEndsLoop ==
    /\ [][\A p \in Pairs :
            stop_event => ~(pc[p] = "while" /\ pc'[p] = "get_action")]_vars
    /\ \A p \in Pairs :
          (stop_event /\ pc[p] \in {"obs", "while", "get_action", "send_action",
                                    "except"})
              ~> (InTeardown(p) \/ pc[p] = "hung" \/ escaped[p] = 37)

\* C7 witness: two sessions, the event set, and both have returned after a
\* complete teardown, each having completed a loop iteration.
C7_Witness ==
    /\ pair2 /\ stop_event
    /\ \A p \in Pairs : pc[p] = "done" /\ Iterations(p) >= 1 /\ ~LoopFailed(p)

\* C8 (as claimed): when a single interrupt has arrived after a session
\* thread was started and the main thread is over, the stop event is set.
C8_InterruptSetsStopEvent ==
    (interrupts = 1 /\ mpc \in {"end", "crashed"} /\ \E p \in Pairs : Started(p))
        => stop_event

\* C9: in the interrupt handler, stop_event.set() comes before every
\* join(timeout=5.0), and "All sessions stopped" is reported only after a
\* join(timeout=5.0) of every thread of the list.
C9_ShutdownOrder ==
    /\ \A i \in Did("join_timeout") : \E j \in Did("set") : j < i
    /\ \A i \in Did("report") : \A k \in DOMAIN threads :
          \E j \in Did("join_timeout") : j < i /\ mlog[j].thread = threads[k]
    /\ mpc \in {"grace", "report"} => stop_event

\* C9 witness: a two-pair run that was interrupted during the wait and has
\* reported that all sessions stopped.
C9_Witness ==
    /\ pair2
    /\ Did("report") # {}
    /\ Cardinality(Did("join_timeout")) = 2

\* C10 (as claimed): when the script has ended with no interrupt, every
\* session of the list has made its three teardown calls.
C10_WaitEndsAfterTeardown ==
    (mpc = "end" /\ interrupts = 0) =>
        \A k \in DOMAIN threads : TeardownComplete(threads[k])

\* Session p has stopped for good without returning: it died from an
\* exception or one of its device calls never returns.
CrashedOrHung(p) == pc[p] \in {"dead", "hung"}

\* C11: once the interrupt handler has set the event, the coordinator gets
\* through its joins and its report to the end of the script whatever the
\* sessions do (a second interrupt can only end it earlier), and every
\* session that is in its loop completes its own teardown (restore and both
\* disconnects) whatever the other session does, unless one of its own
\* device calls raises in the finally block or never returns.
C11_ShutdownNotBlocked ==
    /\ (mpc \in {"grace", "report"}) ~> (mpc \in {"end", "crashed"})
    /\ \A p \in Pairs :
          (stop_event /\ pc[p] \in {"while", "get_action", "send_action",
                                    "except"})
              ~> (TeardownComplete(p) \/ CrashedOrHung(p))

\* C11 witness: two sessions and an interrupt; one session crashed or hangs
\* in a device call, the coordinator has reported and ended, and the other
\* session has returned after its complete teardown.
C11_Witness ==
    \E p \in Pairs :
        /\ pair2 /\ stop_event
        /\ CrashedOrHung(p)
        /\ mpc = "end" /\ Did("report") # {}
        /\ pc[3 - p] = "done" /\ TeardownComplete(3 - p)

\* C12: in a session's call log the leader reads (line 43) and the in-loop
\* follower writes (line 45) alternate strictly: every in-loop send_action
\* directly follows a get_action that returned, and carries the value that
\* get_action returned; a get_action that returned is followed directly by
\* the send_action of its value, with no other get_action in between (when
\* it is the last call so far, the session is about to send it).
C12_ReadWriteAlternate ==
    \A p \in Pairs :
        /\ \A i \in DOMAIN calls[p] :
              calls[p][i].line = 45 =>
                  /\ i > 1
                  /\ calls[p][i - 1].line = 43
                  /\ calls[p][i - 1].out = "ok"
                  /\ calls[p][i].val = calls[p][i - 1].val
        /\ \A i \in DOMAIN calls[p] :
              (calls[p][i].line = 43 /\ calls[p][i].out = "ok") =>
                  IF i = Len(calls[p])
                  THEN pc[p] = "send_action" /\ action[p] = calls[p][i].val
                  ELSE calls[p][i + 1].line = 45

\* C12 witness: a session has completed two loop iterations in which the
\* leader reported two different actions.
C12_Witness ==
    \E p \in Pairs : \E i, j \in At(p, 45) :
        /\ i < j
        /\ calls[p][i].out = "ok" /\ calls[p][j].out = "ok"
        /\ calls[p][i].val # calls[p][j].val

\* C13: the stop event is one-way.  It is never cleared once set; the only
\* step that changes it is the main thread's interrupt handler (the step
\* from the except clause to the joins, recorded as "set" in the main log);
\* and no step of a session (a step that moves a session or adds to a call
\* log while the main thread stays where it is) changes it.
C13_StopEventOneWay ==
    /\ [][stop_event => stop_event']_vars
    /\ [][stop_event' # stop_event =>
            /\ mpc = "except" /\ mpc' = "grace"
            /\ mlog' = Append(mlog, [op |-> "set", thread |-> 0])
            /\ pc' = pc /\ calls' = calls]_vars
    /\ [][(pc' # pc /\ mpc' = mpc) => stop_event' = stop_event]_vars

\* C13 witness: the event is set, a session has seen it and has returned
\* after its teardown, and the other session is still running.
C13_Witness ==
    \E p \in Pairs :
        /\ stop_event
        /\ pc[p] = "done" /\ ~LoopFailed(p)
        /\ pc[3 - p] \in {"while", "get_action", "send_action", "finally"}

\* Positions in p's log of the calls of get_observation.
Observations(p) ==
    {i \in DOMAIN calls[p] : calls[p][i].op = "get_observation"}

\* C14: a session calls get_observation at most once, and exactly once as
\* soon as it is past its entry; that call is made on the follower at line
\* 37, before every get_action and every send_action of the session; and
\* the value sent at teardown (line 51) is the value that call returned,
\* whatever the loop iterations read and sent in between.
C14_SnapshotOnce ==
    \A p \in Pairs :
        LET observed == Observations(p)
        IN  /\ Cardinality(observed) <= 1
            /\ pc[p] \notin {"idle", "obs"} => Cardinality(observed) = 1
            /\ \A i \in observed :
                  /\ calls[p][i].line = 37 /\ calls[p][i].dev = "robot"
                  /\ \A j \in DOMAIN calls[p] :
                        calls[p][j].line \in {43, 45, 51} =>
                            /\ i < j
                            /\ calls[p][i].out = "ok"
                  /\ \A j \in DOMAIN calls[p] :
                        calls[p][j].line = 51 => calls[p][j].val = calls[p][i].val

\* C14 witness: a session that sent, in its loop, a pose other than its
\* snapshot, and has then sent the snapshot at teardown and returned.
C14_Witness ==
    \E p \in Pairs : \E i \in At(p, 37) : \E j \in At(p, 45) : \E k \in At(p, 51) :
        /\ pc[p] = "done"
        /\ calls[p][j].out = "ok"
        /\ calls[p][j].val # calls[p][i].val
        /\ calls[p][k].val = calls[p][i].val

\* The device objects, and all the objects, a thread was given.
DeviceObjects(a) == {a.robot, a.teleop_device}
SessionObjects(a) == {a.robot, a.teleop_device, a.stop_event}

\* C15: every thread of the list has its own two device objects, a follower
\* and a leader; two different threads have no device object in common, and
\* the only object they have in common is the stop event; with two threads
\* that makes four distinct device objects.
C15_DevicesNotShared ==
    /\ Len(thread_args) = Len(threads)
    /\ \A i \in DOMAIN thread_args :
          /\ Cardinality(DeviceObjects(thread_args[i])) = 2
          /\ \A j \in DOMAIN thread_args \ {i} :
                /\ DeviceObjects(thread_args[i]) \cap DeviceObjects(thread_args[j]) = {}
                /\ SessionObjects(thread_args[i]) \cap SessionObjects(thread_args[j])
                       = {"stop_event"}
    /\ Len(thread_args) = 2 =>
          Cardinality(DeviceObjects(thread_args[1]) \cup DeviceObjects(thread_args[2])) = 4

\* C15 witness: a two-pair run in which both sessions are running their
\* loops at the same time.
C15_Witness ==
    /\ Len(thread_args) = 2
    /\ \A p \in Pairs : pc[p] \in {"get_action", "send_action"}

----------------------------------------------------------------------------
(* The composite devices: MultiSO101Follower                               *)
(* (src/multiarm/robots/multi_so101_follower/multi_so101_follower.py) and  *)
(* MultiSO101Leader (src/multiarm/multi_so101_leader/multi_so101_leader.py).*)
(* A string is a sequence of characters, so that startswith, removeprefix  *)
(* and the f-string f"{arm_name}_{key}" are computed on the characters.  A *)
(* dict is a function from its keys to its values.                         *)

\* Bounds: arms and cameras of a composite, keys of a mapping given to it.
MaxArms == 2
MaxCameras == 2
MaxKeys == 3

\* Arm identifiers to configure a composite with.  "a" and "a_b" collide:
\* "a_b_x" starts with both "a_" and "a_b_".
ArmNames == {<<"a">>, <<"b">>, <<"a", "_", "b">>}
\* Camera keys; "a_x" is also what arm "a" makes of its local key "x".
CameraKeys == {<<"c">>, <<"a", "_", "x">>}
\* Keys of an arm's own (local) mappings.
LocalKeys == {<<"x">>, <<"b", "_", "x">>}
\* Keys of the flat mappings handed to a composite: for the arms "a", "b"
\* and "a_b", and "ax", which carries no arm's prefix.
FlatKeys == {<<"a", "_", "x">>, <<"b", "_", "x">>, <<"a", "_", "b", "_", "x">>,
             <<"a", "x">>}
Values == {1, 2}
\* What an image read from a camera is called.
Frame == 3

\* Sequences without repetition over S, of length at most n.
Distinct(S, n) ==
    {q \in UNION {[1..k -> S] : k \in 0..n} :
        \A i, j \in DOMAIN q : q[i] = q[j] => i = j}

\* The dicts with at most n keys, keys from K, values from Values.
Dicts(K, n) ==
    UNION {[D -> Values] : D \in {E \in SUBSET K : Cardinality(E) <= n}}

\* prefix = f"{arm_name}_"
Prefix(arm_name) == arm_name \o <<"_">>

\* key.startswith(prefix)
StartsWith(key, prefix) ==
    /\ Len(key) >= Len(prefix)
    /\ SubSeq(key, 1, Len(prefix)) = prefix

\* key.removeprefix(prefix)
RemovePrefix(key, prefix) ==
    IF StartsWith(key, prefix)
    THEN SubSeq(key, Len(prefix) + 1, Len(key))
    ELSE key

\* d.update(e): the keys of both, e's value where both have the key.
Update(d, e) ==
    [k \in DOMAIN d \cup DOMAIN e |-> IF k \in DOMAIN e THEN e[k] ELSE d[k]]

\* Mutant of AddPrefix: the arm's mapping merged as it is, its keys not
\* prefixed again.
AddPrefixForgotten(arm_name, d) == d

\* {f"{arm_name}_{key}": value for key, value in d.items()}
AddPrefix(arm_name, d) ==
    [k \in {Prefix(arm_name) \o key : key \in DOMAIN d} |->
        d[RemovePrefix(k, Prefix(arm_name))]]

\* Mutant of ArmAction: the keys are filtered by the prefix but handed to
\* the arm with the prefix still on them.
ArmActionKeepsPrefix(arm_name, flat) ==
    [k \in {f \in DOMAIN flat : StartsWith(f, Prefix(arm_name))} |-> flat[k]]

\* follower lines 141-145: {key.removeprefix(prefix): value for key, value in
\* flat.items() if key.startswith(prefix)}
ArmAction(arm_name, flat) ==
    [k \in {RemovePrefix(key, Prefix(arm_name)) :
                key \in {f \in DOMAIN flat : StartsWith(f, Prefix(arm_name))}} |->
        flat[Prefix(arm_name) \o k]]

\* One call made by a composite on a member (an arm or a camera): arg is the
\* mapping passed, ret the mapping the member returned (none when the call
\* raised or the operation returns None).
MemberCall(member, operation, arg, out, ret) ==
    [member |-> member, op |-> operation, arg |-> arg, out |-> out, ret |-> ret]

\* The identifiers in self.arms.
ArmSet == {arms[i] : i \in DOMAIN arms}

\* What a member arm does with a send_action or a send_feedback: it applies
\* the mapping as given, or it limits the targets first (max_relative_target)
\* and reports the limited ones, or it raises.
ArmBehaviours == {"same", "limited", "raise"}
ArmEcho(behaviour, arm_action) ==
    IF behaviour = "same"
    THEN arm_action
    ELSE [k \in DOMAIN arm_action |-> 1]

\* Mutant of IsTruthy: the `if arm_action:` test left out.
IsTruthyAlways(d) == TRUE

\* `if arm_action:` (follower line 147), `if arm_feedback:` (leader line
\* 117): a dict is true when it has a key.
IsTruthy(d) == DOMAIN d # {}

\* MultiSO101Follower.send_action, lines 138-150, from the i-th arm on:
\* result is the dict built so far, made the member calls made so far.
RECURSIVE SendActionFrom(_, _, _, _, _)
SendActionFrom(i, flat, behaviour, result, made) ==
    IF i > Len(arms)
    THEN [result |-> result, made |-> made, raised |-> FALSE]
    ELSE LET arm_name == arms[i]
             arm_action == ArmAction(arm_name, flat)
         IN  IF ~IsTruthy(arm_action)
             THEN SendActionFrom(i + 1, flat, behaviour, result, made)
             ELSE IF behaviour[arm_name] = "raise"
             THEN [result |-> result,
                   made |-> Append(made, MemberCall(arm_name, "send_action",
                                                    arm_action, "raise", EmptyDict)),
                   raised |-> TRUE]
             ELSE LET send_action_result ==
                          ArmEcho(behaviour[arm_name], arm_action)
                  IN  SendActionFrom(i + 1, flat, behaviour,
                          Update(result, AddPrefix(arm_name, send_action_result)),
                          Append(made, MemberCall(arm_name, "send_action",
                                     arm_action, "ok", send_action_result)))

\* The composite has run a handler: what it was given, the member calls it
\* made, what it returned (nothing when a member's exception ended it).
Record(handler, mapping, run) ==
    /\ invoked' = handler
    /\ given' = mapping
    /\ member_calls' = run.made
    /\ returned' = IF run.raised THEN EmptyDict ELSE run.result
    /\ raised' = run.raised
    /\ UNCHANGED <<device, arms, cameras, memberVars, teleopVars, scriptVars>>

\* MultiSO101Follower.send_action(action), lines 134-152.
FollowerSendAction ==
    /\ device = "follower"
    /\ invoked = "none"
    /\ \E flat \in Dicts(FlatKeys, MaxKeys) :
       \E behaviour \in [ArmSet -> ArmBehaviours] :
           Record("send_action", flat,
                  SendActionFrom(1, flat, behaviour, EmptyDict, <<>>))

\* MultiSO101Leader.send_feedback, lines 107-113: the arm a key is given to
\* is the first one, in map order, whose prefix the key starts with (the
\* `break` of line 113); 0 when no arm's prefix matches.
FirstMatch(key) ==
    LET matching == {i \in DOMAIN arms : StartsWith(key, Prefix(arms[i]))}
    IN  IF matching = {}
        THEN 0
        ELSE CHOOSE i \in matching : \A j \in matching : i <= j

\* Mutant of ArmFeedbacks: the keys given to an arm keep the arm's prefix.
ArmFeedbacksKeepPrefix(feedback) ==
    [arm_name \in ArmSet |->
        [k \in {f \in DOMAIN feedback :
                    /\ FirstMatch(f) # 0
                    /\ arms[FirstMatch(f)] = arm_name} |->
            feedback[k]]]

\* leader lines 104-113: arm_feedbacks once the loop over the keys is over.
ArmFeedbacks(feedback) ==
    [arm_name \in ArmSet |->
        [k \in {RemovePrefix(key, Prefix(arm_name)) :
                    key \in {f \in DOMAIN feedback :
                                /\ FirstMatch(f) # 0
                                /\ arms[FirstMatch(f)] = arm_name}} |->
            feedback[Prefix(arm_name) \o k]]]

\* leader lines 116-118, from the i-th arm on.  send_feedback returns None.
RECURSIVE SendFeedbackFrom(_, _, _, _)
SendFeedbackFrom(i, arm_feedbacks, behaviour, made) ==
    IF i > Len(arms)
    THEN [result |-> EmptyDict, made |-> made, raised |-> FALSE]
    ELSE LET arm_name == arms[i]
             arm_feedback == arm_feedbacks[arm_name]
         IN  IF ~IsTruthy(arm_feedback)
             THEN SendFeedbackFrom(i + 1, arm_feedbacks, behaviour, made)
             ELSE IF behaviour[arm_name] = "raise"
             THEN [result |-> EmptyDict,
                   made |-> Append(made, MemberCall(arm_name, "send_feedback",
                                                    arm_feedback, "raise", EmptyDict)),
                   raised |-> TRUE]
             ELSE SendFeedbackFrom(i + 1, arm_feedbacks, behaviour,
                      Append(made, MemberCall(arm_name, "send_feedback",
                                              arm_feedback, "ok", EmptyDict)))

\* MultiSO101Leader.send_feedback(feedback), lines 102-118.
LeaderSendFeedback ==
    /\ device = "leader"
    /\ invoked = "none"
    /\ \E feedback \in Dicts(FlatKeys, MaxKeys) :
       \E behaviour \in [ArmSet -> {"same", "raise"}] :
           Record("send_feedback", feedback,
                  SendFeedbackFrom(1, ArmFeedbacks(feedback), behaviour, <<>>))

\* The member whose read raises, when none does.
NoMember == <<>>

\* follower lines 121-123, from the i-th arm on: reads[arm_name] is what the
\* arm's get_observation returns, failing the member whose read raises.
RECURSIVE GetObservationArms(_, _, _, _, _)
GetObservationArms(i, reads, failing, obs_dict, made) ==
    IF i > Len(arms)
    THEN [result |-> obs_dict, made |-> made, raised |-> FALSE]
    ELSE LET arm_name == arms[i]
             arm_obs == reads[arm_name]
         IN  IF failing = arm_name
             THEN [result |-> obs_dict,
                   made |-> Append(made, MemberCall(arm_name, "get_observation",
                                                    EmptyDict, "raise", EmptyDict)),
                   raised |-> TRUE]
             ELSE GetObservationArms(i + 1, reads, failing,
                      Update(obs_dict, AddPrefix(arm_name, arm_obs)),
                      Append(made, MemberCall(arm_name, "get_observation",
                                              EmptyDict, "ok", arm_obs)))

\* follower lines 126-130, from the i-th camera on:
\* obs_dict[cam_key] = cam.async_read()
RECURSIVE GetObservationCameras(_, _, _, _)
GetObservationCameras(i, failing, obs_dict, made) ==
    IF i > Len(cameras)
    THEN [result |-> obs_dict, made |-> made, raised |-> FALSE]
    ELSE LET cam_key == cameras[i]
         IN  IF failing = cam_key
             THEN [result |-> obs_dict,
                   made |-> Append(made, MemberCall(cam_key, "async_read",
                                                    EmptyDict, "raise", EmptyDict)),
                   raised |-> TRUE]
             ELSE GetObservationCameras(i + 1, failing,
                      Update(obs_dict, [k \in {cam_key} |-> Frame]),
                      Append(made, MemberCall(cam_key, "async_read",
                                              EmptyDict, "ok", EmptyDict)))

\* The keys in self.cameras.
CameraSet == {cameras[i] : i \in DOMAIN cameras}

\* MultiSO101Follower.get_observation(), lines 117-132: the arms, then, when
\* no arm's read raised, the cameras.
FollowerGetObservation ==
    /\ device = "follower"
    /\ invoked = "none"
    /\ \E reads \in [ArmSet -> Dicts(LocalKeys, MaxKeys)] :
       \E failing \in ArmSet \cup CameraSet \cup {NoMember} :
           LET from_arms == GetObservationArms(1, reads, failing, EmptyDict, <<>>)
           IN  Record("get_observation", EmptyDict,
                      IF from_arms.raised
                      THEN from_arms
                      ELSE GetObservationCameras(1, failing, from_arms.result,
                                                 from_arms.made))

\* leader lines 95-98, from the i-th arm on.
RECURSIVE GetActionFrom(_, _, _, _, _)
GetActionFrom(i, reads, failing, action_dict, made) ==
    IF i > Len(arms)
    THEN [result |-> action_dict, made |-> made, raised |-> FALSE]
    ELSE LET arm_name == arms[i]
             arm_action == reads[arm_name]
         IN  IF failing = arm_name
             THEN [result |-> action_dict,
                   made |-> Append(made, MemberCall(arm_name, "get_action",
                                                    EmptyDict, "raise", EmptyDict)),
                   raised |-> TRUE]
             ELSE GetActionFrom(i + 1, reads, failing,
                      Update(action_dict, AddPrefix(arm_name, arm_action)),
                      Append(made, MemberCall(arm_name, "get_action",
                                              EmptyDict, "ok", arm_action)))

\* MultiSO101Leader.get_action(), lines 92-100.
LeaderGetAction ==
    /\ device = "leader"
    /\ invoked = "none"
    /\ \E reads \in [ArmSet -> Dicts(LocalKeys, MaxKeys)] :
       \E failing \in ArmSet \cup {NoMember} :
           Record("get_action", EmptyDict,
                  GetActionFrom(1, reads, failing, EmptyDict, <<>>))

\* The caller is done with the call on record.  The handlers above keep
\* nothing from one call to the next, so the next call starts from a
\* clean record.
Return ==
    /\ invoked # "none"
    /\ invoked' = "none"
    /\ given' = EmptyDict
    /\ member_calls' = <<>>
    /\ returned' = EmptyDict
    /\ raised' = FALSE
    /\ UNCHANGED <<device, arms, cameras, memberVars, teleopVars, scriptVars>>

\* A composite as its constructor leaves it (follower lines 48-63, leader
\* lines 47-54): one arm per entry of the configuration, in its order, and
\* for the follower one camera per entry of config.cameras.  No
\* teleoperation script runs.
CompositeInit ==
    /\ TeleopInit
    /\ pair2 = FALSE
    /\ device \in {"follower", "leader"}
    /\ arms \in Distinct(ArmNames, MaxArms)
    /\ cameras \in IF device = "follower"
                   THEN Distinct(CameraKeys, MaxCameras)
                   ELSE {<<>>}
    /\ config_arms = arms /\ config_cameras = cameras
    /\ built = TRUE /\ connected = {} /\ calibrated = {}
    /\ NoCallOnRecord
    /\ NoScripts

CompositeNext ==
    \/ FollowerSendAction
    \/ LeaderSendFeedback
    \/ FollowerGetObservation
    \/ LeaderGetAction
    \/ Return

CompositeSpec == CompositeInit /\ [][CompositeNext]_vars

----------------------------------------------------------------------------
(* Reading the record of a composite call.                                 *)

\* Positions in member_calls of the calls made on a member.
CallsOn(member) ==
    {i \in DOMAIN member_calls : member_calls[i].member = member}
\* The strings t with key = s \o t for some s.
Tails(key) == {SubSeq(key, j, Len(key)) : j \in 1..(Len(key) + 1)}
\* The key is the arm's prefix followed by the local key.
Carries(key, arm_name, local) == key = arm_name \o <<"_">> \o local
\* The key carries the arm's prefix.
InNamespace(key, arm_name) == \E t \in Tails(key) : Carries(key, arm_name, t)
\* The follower has run send_action; the leader has run send_feedback.
SentAction == device = "follower" /\ invoked = "send_action"
SentFeedback == device = "leader" /\ invoked = "send_feedback"

\* C16: when the follower composite has run send_action, each arm was called
\* at most once; a call on an arm was given exactly the keys of the action
\* that carry the arm's prefix, with the prefix removed and with their
\* values; an arm none of whose keys is in the action was not called; and
\* when no arm raised, every arm that has a key in the action was called.
C16_DispatchByPrefix ==
    SentAction =>
        \A n \in ArmSet :
            /\ Cardinality(CallsOn(n)) <= 1
            /\ \A i \in CallsOn(n) :
                  /\ member_calls[i].op = "send_action"
                  /\ \A t \in DOMAIN member_calls[i].arg :
                        /\ n \o <<"_">> \o t \in DOMAIN given
                        /\ member_calls[i].arg[t] = given[n \o <<"_">> \o t]
                  /\ \A k \in DOMAIN given : \A t \in Tails(k) :
                        Carries(k, n, t) => t \in DOMAIN member_calls[i].arg
            /\ CallsOn(n) # {} => \E k \in DOMAIN given : InNamespace(k, n)
            /\ (~raised /\ \E k \in DOMAIN given : InNamespace(k, n))
                  => CallsOn(n) # {}
            /\ \A i \in DOMAIN member_calls : member_calls[i].member \in ArmSet

\* C16 witness: a follower of the arms "a" and "b" was sent an action with a
\* key for each, of different values, and a key for neither, and has called
\* both arms.
C16_Witness ==
    /\ SentAction /\ ~raised
    /\ ArmSet = {<<"a">>, <<"b">>}
    /\ DOMAIN given = {<<"a", "_", "x">>, <<"b", "_", "x">>, <<"a", "x">>}
    /\ given[<<"a", "_", "x">>] # given[<<"b", "_", "x">>]
    /\ Len(member_calls) = 2

\* The i-th member call was handed this key of the flat mapping (under its
\* local name).
Delivered(key, i) ==
    \E t \in DOMAIN member_calls[i].arg : Carries(key, member_calls[i].member, t)
\* Position in self.arms of the member the i-th call was made on.
ArmIndex(i) == CHOOSE m \in DOMAIN arms : arms[m] = member_calls[i].member

\* C17 (as claimed): when the follower composite has run send_action, every
\* key of the action was delivered to at most one arm, and an arm a key was
\* delivered to is the first arm in map order whose prefix the key carries.
C17_FirstMatchOnly ==
    SentAction =>
        \A k \in DOMAIN given : \A i \in DOMAIN member_calls :
            Delivered(k, i) =>
                /\ \A j \in DOMAIN member_calls : Delivered(k, j) => j = i
                /\ \A m \in DOMAIN arms :
                      InNamespace(k, arms[m]) => ArmIndex(i) <= m

\* The keys the i-th member call, when it returned, adds to the mapping the
\* composite returns: the keys of the member's mapping under its prefix, or
\* the camera's own key.
KeysWritten(i) ==
    IF member_calls[i].out # "ok"
    THEN {}
    ELSE IF member_calls[i].op = "async_read"
    THEN {member_calls[i].member}
    ELSE {member_calls[i].member \o <<"_">> \o t : t \in DOMAIN member_calls[i].ret}
\* The calls that wrote the key, and the last of them.
Writers(key) == {i \in DOMAIN member_calls : key \in KeysWritten(i)}
LastWriter(key) == CHOOSE i \in Writers(key) : \A j \in Writers(key) : j <= i

\* C18: when the follower composite has run send_action, it raised only if
\* the arm it called last raised (never because of a key); a key that
\* carries no arm's prefix was delivered to no arm; and when it returned,
\* the keys of the returned mapping are the keys the called arms echoed,
\* each under its arm's prefix, with the value that arm echoed (the value
\* of the arm called last where two arms echo the same prefixed key).
C18_ResultIsPrefixedEchoes ==
    SentAction =>
        /\ raised =>
              /\ member_calls # <<>>
              /\ member_calls[Len(member_calls)].out = "raise"
        /\ \A k \in DOMAIN given :
              (\A n \in ArmSet : ~InNamespace(k, n)) =>
                  \A i \in DOMAIN member_calls : ~Delivered(k, i)
        /\ ~raised =>
              /\ DOMAIN returned = UNION {KeysWritten(i) : i \in DOMAIN member_calls}
              /\ \A k \in DOMAIN returned :
                    \E t \in Tails(k) :
                        /\ Carries(k, member_calls[LastWriter(k)].member, t)
                        /\ returned[k] = member_calls[LastWriter(k)].ret[t]

\* C18 witness: a follower of the arms "a" and "b" was sent a key for each
\* and a key for neither; both arms were called, one of them echoed another
\* value than it was sent, and the returned mapping has the two prefixed
\* keys only.
C18_Witness ==
    /\ SentAction /\ ~raised
    /\ ArmSet = {<<"a">>, <<"b">>}
    /\ DOMAIN given = {<<"a", "_", "x">>, <<"b", "_", "x">>, <<"a", "x">>}
    /\ DOMAIN returned = {<<"a", "_", "x">>, <<"b", "_", "x">>}
    /\ \E k \in DOMAIN returned : returned[k] # given[k]
    /\ \E k \in DOMAIN returned : returned[k] = given[k]

\* The local keys an arm has in the mapping the composite was given: what
\* remains of the keys carrying the arm's prefix once it is removed.
LocalKeysOf(arm_name) ==
    {t \in UNION {Tails(k) : k \in DOMAIN given} :
        \E k \in DOMAIN given : Carries(k, arm_name, t)}

\* C19 (as claimed): when the leader composite has run send_feedback, a call
\* on an arm was given exactly the feedback keys that carry the arm's
\* prefix, with the prefix removed and with their values; an arm was called
\* only when that mapping is not empty, and, when no arm raised, was called
\* whenever it is not empty; and a key carrying no arm's prefix was
\* delivered to no arm.
C19_FeedbackByPrefix ==
    SentFeedback =>
        /\ \A n \in ArmSet :
              /\ Cardinality(CallsOn(n)) <= 1
              /\ \A i \in CallsOn(n) :
                    /\ member_calls[i].op = "send_feedback"
                    /\ DOMAIN member_calls[i].arg = LocalKeysOf(n)
                    /\ \A t \in DOMAIN member_calls[i].arg :
                          member_calls[i].arg[t] = given[n \o <<"_">> \o t]
              /\ CallsOn(n) # {} => LocalKeysOf(n) # {}
              /\ (~raised /\ LocalKeysOf(n) # {}) => CallsOn(n) # {}
        /\ \A k \in DOMAIN given :
              (\A n \in ArmSet : ~InNamespace(k, n)) =>
                  \A i \in DOMAIN member_calls : ~Delivered(k, i)

\* The composite has read its members: the follower by get_observation, the
\* leader by get_action.
ReadMembers ==
    \/ device = "follower" /\ invoked = "get_observation"
    \/ device = "leader" /\ invoked = "get_action"

\* C20 (as claimed): when get_observation of the follower composite, or
\* get_action of the leader composite, has returned, the key set of the
\* returned mapping is the union of every arm's local keys under the arm's
\* prefix and of every camera's key, and no key was written by two members.
C20_KeysUnionNoCollision ==
    (ReadMembers /\ ~raised) =>
        /\ \A n \in ArmSet : Cardinality(CallsOn(n)) = 1
        /\ \A c \in CameraSet : Cardinality(CallsOn(c)) = 1
        /\ DOMAIN returned = UNION {KeysWritten(i) : i \in DOMAIN member_calls}
        /\ \A k \in DOMAIN returned : Cardinality(Writers(k)) = 1

\* No configured arm's prefix is the beginning of another's.
NonColliding ==
    \A n1, n2 \in ArmSet :
        n1 # n2 => ~StartsWith(Prefix(n2), Prefix(n1))

\* The flat mapping made of per-arm local mappings: each arm's mapping under
\* the arm's prefix, the arms in map order, from the i-th on.
RECURSIVE Flatten(_, _)
Flatten(locals, i) ==
    IF i > Len(arms)
    THEN EmptyDict
    ELSE Update(AddPrefix(arms[i], locals[arms[i]]), Flatten(locals, i + 1))

\* C21: with non-colliding arm identifiers, removing an arm's prefix from a
\* local key put under that prefix gives the local key back; and when the
\* follower's send_action (or the leader's send_feedback) was given the
\* flat mapping made of per-arm local mappings, it called each arm whose
\* local mapping is not empty with exactly that mapping (when no arm
\* raised), and called no arm whose local mapping is empty.
C21_NamespacingRoundTrips ==
    NonColliding =>
        /\ \A n \in ArmSet : \A k \in LocalKeys :
              /\ StartsWith(Prefix(n) \o k, Prefix(n))
              /\ RemovePrefix(Prefix(n) \o k, Prefix(n)) = k
        /\ (SentAction \/ SentFeedback) =>
              \A locals \in [ArmSet -> Dicts(LocalKeys, MaxKeys)] :
                  given = Flatten(locals, 1) =>
                      \A n \in ArmSet :
                          /\ \A i \in CallsOn(n) :
                                member_calls[i].arg = locals[n]
                          /\ locals[n] = EmptyDict => CallsOn(n) = {}
                          /\ (~raised /\ locals[n] # EmptyDict)
                                => CallsOn(n) # {}

\* C21 witness: a follower of two arms with non-colliding identifiers was
\* sent the flat mapping of two non-empty local mappings with different
\* values, and has called both arms.
C21_Witness ==
    /\ SentAction /\ ~raised /\ NonColliding
    /\ Len(arms) = 2 /\ Len(member_calls) = 2
    /\ \E locals \in [ArmSet -> Dicts(LocalKeys, MaxKeys)] :
          /\ given = Flatten(locals, 1)
          /\ \A n \in ArmSet : locals[n] # EmptyDict
          /\ locals[arms[1]] # locals[arms[2]]

----------------------------------------------------------------------------
(* The composite devices: construction, connection and the operations that *)
(* fan out to the member arms (follower lines 43-63 and 87-115, 154-159;   *)
(* leader lines 41-54 and 68-90, 120-122).                                 *)

\* The elements of a sequence.
Range(q) == {q[i] : i \in DOMAIN q}

\* `for member in members: member.operation()` from the i-th member on: the
\* call on the member `failing` raises and ends the loop, the others return.
RECURSIVE CallEach(_, _, _, _, _)
CallEach(members, operation, i, failing, made) ==
    IF i > Len(members)
    THEN [made |-> made, raised |-> FALSE]
    ELSE IF members[i] = failing
    THEN [made |-> Append(made, MemberCall(members[i], operation, EmptyDict,
                                            "raise", EmptyDict)),
          raised |-> TRUE]
    ELSE CallEach(members, operation, i + 1, failing,
                  Append(made, MemberCall(members[i], operation, EmptyDict,
                                          "ok", EmptyDict)))

\* The arms, then (follower: connect and disconnect only) the cameras: the
\* second loop runs when the first ended without an exception.
CallArmsThenCameras(operation, failing) ==
    LET on_arms == CallEach(arms, operation, 1, failing, <<>>)
    IN  IF on_arms.raised
        THEN on_arms
        ELSE CallEach(cameras, operation, 1, failing, on_arms.made)

\* The members a run of calls was made on, and those whose call returned.
CalledMembers(run) == {run.made[i].member : i \in DOMAIN run.made}
ServedMembers(run) ==
    {run.made[i].member : i \in {j \in DOMAIN run.made : run.made[j].out = "ok"}}

\* A handler that takes no mapping and returns None has run.
RecordCalls(handler, run) ==
    /\ invoked' = handler
    /\ given' = EmptyDict
    /\ member_calls' = run.made
    /\ returned' = EmptyDict
    /\ raised' = run.raised
    /\ UNCHANGED <<device, arms, cameras, config_arms, config_cameras, built,
                   teleopVars, scriptVars>>

\* __init__ (follower lines 43-63, leader lines 41-54): one arm per entry of
\* the configuration, in its order; the follower then makes its cameras.
\* Nothing in it looks at the identifiers.
Construct ==
    /\ ~built
    /\ built' = TRUE
    /\ arms' = config_arms
    /\ cameras' = config_cameras
    /\ UNCHANGED <<device, config_arms, config_cameras, connected, calibrated,
                   invoked, given, member_calls, returned, raised, teleopVars, scriptVars>>

\* Mutant of is_connected: the cameras are not looked at.
is_connected_arms_only == \A i \in DOMAIN arms : arms[i] \in connected

\* is_connected (follower lines 87-92, leader lines 68-70).
is_connected ==
    IF device = "follower"
    THEN /\ \A i \in DOMAIN arms : arms[i] \in connected
         /\ \A i \in DOMAIN cameras : cameras[i] \in connected
    ELSE \A i \in DOMAIN arms : arms[i] \in connected

\* Mutant of Connect: when a member's connect raises, the members connected
\* so far are disconnected again before the error is passed on.
ConnectRollsBack ==
    /\ built /\ invoked = "none"
    /\ \E failing \in ArmSet \cup CameraSet \cup {NoMember} :
           LET run == CallArmsThenCameras("connect", failing)
           IN  /\ RecordCalls("connect", run)
               /\ connected' = IF run.raised
                               THEN connected \ CalledMembers(run)
                               ELSE connected \cup ServedMembers(run)
    /\ UNCHANGED calibrated

\* connect(calibrate) (follower lines 94-99, leader lines 72-74).  A member
\* whose connect returned is connected; the one whose connect raised may
\* have been left with its port open or not (half_open).
Connect ==
    /\ built /\ invoked = "none"
    /\ \E failing \in ArmSet \cup CameraSet \cup {NoMember} :
       \E half_open \in BOOLEAN :
           LET run == CallArmsThenCameras("connect", failing)
           IN  /\ RecordCalls("connect", run)
               /\ connected' =
                     connected \cup ServedMembers(run)
                         \cup (IF half_open THEN CalledMembers(run) ELSE {})
    /\ UNCHANGED calibrated

\* disconnect() (follower lines 154-159, leader lines 120-122).  A member
\* whose disconnect returned is disconnected; the one whose disconnect
\* raised may still have its port open or not (half_open).
Disconnect ==
    /\ built /\ invoked = "none"
    /\ \E failing \in ArmSet \cup CameraSet \cup {NoMember} :
       \E half_open \in BOOLEAN :
           LET run == CallArmsThenCameras("disconnect", failing)
           IN  /\ RecordCalls("disconnect", run)
               /\ connected' =
                     connected \ (IF half_open
                                  THEN ServedMembers(run)
                                  ELSE CalledMembers(run))
    /\ UNCHANGED calibrated

\* Mutant of Calibrate: the arms that are calibrated already are left out.
CalibrateSkipsCalibrated ==
    /\ built /\ invoked = "none"
    /\ \E failing \in ArmSet \cup {NoMember} :
           LET todo == SelectSeq(arms, LAMBDA n : n \notin calibrated)
               run == CallEach(todo, "calibrate", 1, failing, <<>>)
           IN  /\ RecordCalls("calibrate", run)
               /\ calibrated' = calibrated \cup ServedMembers(run)
    /\ UNCHANGED connected

\* calibrate() (follower lines 105-107, leader lines 80-82): an arm whose
\* calibrate returned is calibrated.
Calibrate ==
    /\ built /\ invoked = "none"
    /\ \E failing \in ArmSet \cup {NoMember} :
           LET run == CallEach(arms, "calibrate", 1, failing, <<>>)
           IN  /\ RecordCalls("calibrate", run)
               /\ calibrated' = calibrated \cup ServedMembers(run)
    /\ UNCHANGED connected

\* configure() (follower lines 109-111, leader lines 84-86).
Configure ==
    /\ built /\ invoked = "none"
    /\ \E failing \in ArmSet \cup {NoMember} :
           RecordCalls("configure", CallEach(arms, "configure", 1, failing, <<>>))
    /\ UNCHANGED <<connected, calibrated>>

\* setup_motors() (follower lines 113-115, leader lines 88-90).
SetupMotors ==
    /\ built /\ invoked = "none"
    /\ \E failing \in ArmSet \cup {NoMember} :
           RecordCalls("setup_motors",
                       CallEach(arms, "setup_motors", 1, failing, <<>>))
    /\ UNCHANGED <<connected, calibrated>>

\* A member's connection opens or closes without the composite: its own
\* connect() or disconnect() is called on it, or its cable is pulled.
MemberChanges ==
    /\ built /\ invoked = "none"
    /\ \E m \in ArmSet \cup CameraSet :
           connected' = IF m \in connected
                        THEN connected \ {m}
                        ELSE connected \cup {m}
    /\ UNCHANGED <<device, arms, cameras, config_arms, config_cameras, built,
                   calibrated, invoked, given, member_calls, returned, raised,
                   teleopVars, scriptVars>>

\* A configuration handed to a constructor that has not run yet: any arm
\* identifiers and camera keys, and whatever calibration the arms have on
\* file from earlier runs.  No teleoperation script runs.
LifecycleInit ==
    /\ TeleopInit
    /\ pair2 = FALSE
    /\ device \in {"follower", "leader"}
    /\ config_arms \in Distinct(ArmNames, MaxArms)
    /\ config_cameras \in IF device = "follower"
                          THEN Distinct(CameraKeys, MaxCameras)
                          ELSE {<<>>}
    /\ arms = <<>> /\ cameras = <<>>
    /\ built = FALSE
    /\ connected = {}
    /\ calibrated \in SUBSET Range(config_arms)
    /\ NoCallOnRecord
    /\ NoScripts

LifecycleNext ==
    \/ Construct
    \/ Connect
    \/ Disconnect
    \/ Calibrate
    \/ Configure
    \/ SetupMotors
    \/ MemberChanges
    \/ Return

LifecycleSpec == LifecycleInit /\ [][LifecycleNext]_vars

----------------------------------------------------------------------------
(* Claims about construction, connection and fan-out.                      *)

\* The members of the composite: its arms and its cameras.
MemberSet == ArmSet \cup CameraSet

\* C22: a built composite reports is_connected exactly when every one of
\* its members (every arm and, for the follower, every camera) is
\* connected; and whenever a member goes from connected to disconnected,
\* by the composite or on its own, the composite reports false afterwards.
C22_ConnectedIffAllMembers ==
    /\ [](built => (is_connected <=> \A m \in MemberSet : m \in connected))
    /\ [][(\E m \in MemberSet : m \in connected /\ m \notin connected')
              => ~is_connected']_vars

\* C22 witness: a follower of two arms and two cameras of which all members
\* are connected but one camera.
C22_Witness ==
    /\ built /\ device = "follower"
    /\ Len(arms) = 2 /\ Len(cameras) = 2
    /\ ArmSet \subseteq connected
    /\ Cardinality(CameraSet \ connected) = 1
    /\ ~is_connected

\* The members in the order connect() and disconnect() visit them.
MemberOrder == arms \o cameras

\* The calls on record are calls of `operation` on the first members of the
\* sequence, in its order, one each.
CallsFollow(members, operation) ==
    /\ Len(member_calls) <= Len(members)
    /\ \A i \in DOMAIN member_calls :
          /\ member_calls[i].member = members[i]
          /\ member_calls[i].op = operation
          /\ i < Len(member_calls) => member_calls[i].out = "ok"
\* The handler on record ended by the exception of the member it called
\* last, or it returned after calling every member of the sequence.
FailFast(members) ==
    IF raised
    THEN member_calls # <<>> /\ member_calls[Len(member_calls)].out = "raise"
    ELSE /\ Len(member_calls) = Len(members)
         /\ \A i \in DOMAIN member_calls : member_calls[i].out = "ok"

\* C23: when connect() has run, it called connect on the arms in map order
\* and then on the cameras, each once; it raised exactly when a member's
\* connect raised, and then that member is the last it called (no member
\* after it was attempted, no disconnect was issued); and every member
\* whose connect returned is connected afterwards.
C23_ConnectFailFastNoRollback ==
    invoked = "connect" =>
        /\ CallsFollow(MemberOrder, "connect")
        /\ FailFast(MemberOrder)
        /\ \A i \in DOMAIN member_calls :
              member_calls[i].out = "ok" => member_calls[i].member \in connected

\* C23 witness: a follower of two arms and a camera whose connect() raised
\* at the second arm: the first arm is connected, the camera was not
\* attempted.
C23_Witness ==
    /\ invoked = "connect" /\ raised /\ device = "follower"
    /\ Len(arms) = 2 /\ Len(cameras) >= 1
    /\ Len(member_calls) = 2
    /\ arms[1] \in connected
    /\ cameras[1] \notin connected

\* C24: when disconnect() has finished, normally or with an error, every
\* member arm and every camera has had its disconnect attempted, in map
\* order.
C24_DisconnectAttemptsAll ==
    invoked = "disconnect" =>
        /\ Len(member_calls) = Len(MemberOrder)
        /\ \A i \in DOMAIN member_calls :
              /\ member_calls[i].member = MemberOrder[i]
              /\ member_calls[i].op = "disconnect"

\* The operations that fan out to the arms only.
ArmOperations == {"calibrate", "configure", "setup_motors"}

\* C25: when calibrate(), configure() or setup_motors() has run, it called
\* that operation on the arms in map order, one call each, connected or not,
\* calibrated or not; it raised exactly when an arm's call raised, and then
\* no arm after that one was called.
C25_FanOutFailFast ==
    invoked \in ArmOperations =>
        /\ CallsFollow(arms, invoked)
        /\ FailFast(arms)

\* C25 witness: calibrate() on two arms called the first, which is not
\* connected, and then the second, which was calibrated already and whose
\* call raised.
C25_Witness ==
    /\ invoked = "calibrate" /\ raised
    /\ Len(arms) = 2 /\ Len(member_calls) = 2
    /\ arms[1] \notin connected
    /\ arms[2] \in calibrated

\* C26: a composite whose arm identifiers give colliding prefixes is never
\* constructed: the constructor fails before it creates an arm.
C26_CollidingPrefixesRejected ==
    [][(~built /\ \E i, j \in DOMAIN config_arms :
                      /\ i # j
                      /\ StartsWith(Prefix(config_arms[j]), Prefix(config_arms[i])))
           => (~built' /\ arms' = <<>>)]_vars

-----------------------------------------------------------------------------
(***************************************************************************)
(* The feature properties of the composites (follower lines 65-85, leader  *)
(* lines 56-66).                                                           *)
(***************************************************************************)

\* Bound: accesses of feature properties in one run.
MaxAccess == 3

\* arm.bus.motors, the same on every member arm: the motor names, in the
\* order of the bus's dict (two stand for the six of an SO101 arm, one of
\* them with an underscore in it, as in wrist_flex).
Motors == << <<"g">>, <<"w", "_", "f">> >>

\* The ".pos" that ends a motor's feature key.
Pos == <<".", "p", "o", "s">>

\* The value of a camera's feature: (height, width, 3) of its config.
CameraShape(cam) == <<"height", "width", Frame>>

\* _motors_ft (follower lines 65-71; leader lines 58-62): the loop over the
\* arms and, inside it, over the motors of the arm's bus, from arm i and
\* motor j on.
RECURSIVE motors_ft_from(_, _)
motors_ft_from(i, j) ==
    IF i > Len(arms) THEN EmptyDict
    ELSE IF j > Len(Motors) THEN motors_ft_from(i + 1, 1)
    ELSE LET key == Prefix(arms[i]) \o Motors[j] \o Pos
         IN  Update(key :> "float", motors_ft_from(i, j + 1))

motors_ft == motors_ft_from(1, 1)

\* _cameras_ft (follower lines 73-77).
cameras_ft == [cam \in CameraSet |-> CameraShape(cam)]

\* The body of a feature property.
FeatureBody(name) ==
    IF name = "observation_features"
    THEN Update(motors_ft, cameras_ft)
    ELSE motors_ft

\* A dict object: Python hands out the object, so two dicts with the same
\* items are told apart by their identity.
DictObject(id, value) == [id |-> id, value |-> value]

\* One access on record.
Access(name, got) == [name |-> name, got |-> got]

\* Mutant of AccessFeature: a plain property, its body runs at every
\* access.
AccessFeatureUncached(name) ==
    /\ built /\ Len(feature_log) < MaxAccess
    /\ LET made == DictObject(feature_objects + 1, FeatureBody(name))
       IN  /\ feature_objects' = feature_objects + 1
           /\ feature_log' = Append(feature_log, Access(name, made))
           /\ UNCHANGED feature_cache
    /\ UNCHANGED <<teleopVars, compositeVars, toolVars, recorderVars, mergeVars>>

\* Reading a cached_property: the value stored in the instance if there is
\* one, else the body runs and its result is stored and returned.
AccessFeature(name) ==
    /\ built /\ Len(feature_log) < MaxAccess
    /\ IF name \in DOMAIN feature_cache
       THEN /\ feature_log' = Append(feature_log, Access(name, feature_cache[name]))
            /\ UNCHANGED <<feature_cache, feature_objects>>
       ELSE LET made == DictObject(feature_objects + 1, FeatureBody(name))
            IN  /\ feature_cache' = Update(feature_cache, name :> made)
                /\ feature_objects' = feature_objects + 1
                /\ feature_log' = Append(feature_log, Access(name, made))
    /\ UNCHANGED <<teleopVars, compositeVars, toolVars, recorderVars, mergeVars>>

\* action_features (follower lines 83-85, leader lines 56-62).
AccessActionFeatures == AccessFeature("action_features")

\* observation_features (follower lines 79-81).
AccessObservationFeatures ==
    /\ device = "follower"
    /\ AccessFeature("observation_features")

FeaturesInit == CompositeInit

FeaturesNext == AccessActionFeatures \/ AccessObservationFeatures

FeaturesSpec == FeaturesInit /\ [][FeaturesNext]_vars

\* The feature keys of the motors: one per arm and motor.
MotorKeys ==
    {Prefix(n) \o Motors[j] \o Pos : n \in ArmSet, j \in DOMAIN Motors}

\* The accesses of one feature property on record.
AccessesOf(name) == {i \in DOMAIN feature_log : feature_log[i].name = name}

\* C27: every access of action_features returned a mapping whose keys are
\* the <arm>_<motor>.pos of every arm and motor, one key per pair; every
\* access of the follower's observation_features returned those keys and
\* the camera keys as they are, one per camera; and each property's body
\* ran once: all accesses of a property returned the same dict object.
C27_FeaturesComputedOnce ==
    /\ \A i \in AccessesOf("action_features") :
          /\ DOMAIN feature_log[i].got.value = MotorKeys
          /\ Cardinality(MotorKeys) = Len(arms) * Len(Motors)
    /\ \A i \in AccessesOf("observation_features") :
          /\ DOMAIN feature_log[i].got.value = MotorKeys \cup CameraSet
          /\ Cardinality(DOMAIN feature_log[i].got.value)
                = Len(arms) * Len(Motors) + Len(cameras)
    /\ \A i, j \in DOMAIN feature_log :
          feature_log[i].name = feature_log[j].name
              => feature_log[i].got = feature_log[j].got
    /\ feature_objects
          = Cardinality({feature_log[i].name : i \in DOMAIN feature_log})

\* C27 witness: a follower of two arms and two cameras whose
\* observation_features was read, then its action_features, then
\* observation_features again.
C27_Witness ==
    /\ device = "follower" /\ Len(arms) = 2 /\ Len(cameras) = 2
    /\ Len(feature_log) = 3
    /\ feature_log[1].name = "observation_features"
    /\ feature_log[2].name = "action_features"
    /\ feature_log[3].name = "observation_features"
    /\ Cardinality(DOMAIN feature_log[3].got.value) = 6

-----------------------------------------------------------------------------
(***************************************************************************)
(* The command-line tools src/calibrate_arm.py and src/setup_motors.py.    *)
(***************************************************************************)

\* Values of the arguments: the two arm types, and two strings that are
\* neither; two ports; two identifiers.
ArmTypes == {"follower", "leader", "both", ""}
Ports == {"/dev/ttyUSB0", "/dev/ttyACM0"}
Ids == {"my_robot", "my_other_robot"}

\* A single-arm device as its constructor was called.
Arm(class, port, id) == [class |-> class, port |-> port, id |-> id]

\* Mutant of get_arm: every arm_type but "follower" gives a leader arm.
get_arm_leader_by_default(arm_type, port, id) ==
    IF arm_type = "follower"
    THEN [arm |-> Arm("SO101Follower", port, id), exc |-> "none"]
    ELSE [arm |-> Arm("SO101Leader", port, id), exc |-> "none"]

\* get_arm(arm_type, port, id), calibrate_arm.py lines 15-46 and
\* setup_motors.py lines 17-49: the device it returns, or the exception it
\* raises.
get_arm(arm_type, port, id) ==
    IF arm_type = "follower"
    THEN [arm |-> Arm("SO101Follower", port, id), exc |-> "none"]
    ELSE IF arm_type = "leader"
    THEN [arm |-> Arm("SO101Leader", port, id), exc |-> "none"]
    ELSE [arm |-> NoArm, exc |-> "ValueError"]

\* arm = get_arm(arm_type, port, id): calibrate_arm.py line 61,
\* setup_motors.py line 64.  The exception leaves the tool's function.
ToolGetArm ==
    /\ tool_pc = "get_arm"
    /\ LET got == get_arm(tool_args.arm_type, tool_args.port, tool_args.id)
       IN  /\ tool_arm' = got.arm
           /\ tool_exc' = got.exc
           /\ tool_pc' = IF got.exc # "none" THEN "done"
                         ELSE IF tool = "calibrate_arm" THEN "connect"
                         ELSE "setup_motors"
    /\ UNCHANGED <<tool, tool_args, tool_calls>>
    /\ UNCHANGED <<teleopVars, compositeVars, featureVars, recorderVars, mergeVars>>

\* One call on the device: it returns, or it raises and the exception
\* leaves the tool's function.
ToolCall(operation, arg, next) ==
    /\ tool_pc = operation
    /\ \E out \in {"ok", "raise"} :
          /\ tool_calls' = Append(tool_calls,
                                  [op |-> operation, arg |-> arg, out |-> out])
          /\ tool_exc' = IF out = "raise" THEN operation ELSE tool_exc
          /\ tool_pc' = IF out = "raise" THEN "done" ELSE next
    /\ UNCHANGED <<tool, tool_args, tool_arm>>
    /\ UNCHANGED <<teleopVars, compositeVars, featureVars, recorderVars, mergeVars>>

\* calibrate_arm.py line 64: arm.connect(calibrate=False)
ToolConnect == ToolCall("connect", "calibrate=False", "calibrate")
\* calibrate_arm.py line 67: arm.calibrate()
ToolCalibrate == ToolCall("calibrate", "", "disconnect")
\* calibrate_arm.py line 70: arm.disconnect()
ToolDisconnect == ToolCall("disconnect", "", "done")
\* setup_motors.py line 67: arm.setup_motors()
ToolSetupMotors == ToolCall("setup_motors", "", "done")

\* calibrate_arm(port, id, arm_type) or setup_motors(port, id, arm_type) is
\* called.
ToolInit ==
    /\ TeleopInit /\ pair2 = FALSE
    /\ NoComposite /\ NoFeatures /\ NoRecorder /\ NoMerge
    /\ tool \in {"calibrate_arm", "setup_motors"}
    /\ tool_pc = "get_arm"
    /\ tool_args \in [arm_type : ArmTypes, port : Ports, id : Ids]
    /\ tool_arm = NoArm
    /\ tool_calls = <<>>
    /\ tool_exc = "none"

ToolNext ==
    \/ ToolGetArm
    \/ ToolConnect
    \/ ToolCalibrate
    \/ ToolDisconnect
    \/ ToolSetupMotors

ToolSpec == ToolInit /\ [][ToolNext]_vars

\* C28: once get_arm has run, arm_type "follower" gave a follower arm and
\* "leader" a leader arm, on the port and with the id given; any other
\* arm_type gave ValueError and no device, the tool is over and it made no
\* connect, calibrate or setup_motors call.
C28_GetArmByType ==
    tool_pc # "get_arm" =>
        /\ tool_args.arm_type = "follower" =>
              tool_arm = Arm("SO101Follower", tool_args.port, tool_args.id)
        /\ tool_args.arm_type = "leader" =>
              tool_arm = Arm("SO101Leader", tool_args.port, tool_args.id)
        /\ tool_args.arm_type \notin {"follower", "leader"} =>
              /\ tool_exc = "ValueError"
              /\ tool_arm = NoArm
              /\ tool_pc = "done"
              /\ tool_calls = <<>>

\* C28 witness: calibrate_arm was called with the arm_type "both" and
\* ended by the ValueError of get_arm.
C28_Witness ==
    /\ tool = "calibrate_arm" /\ tool_args.arm_type = "both"
    /\ tool_pc = "done" /\ tool_exc = "ValueError"
    /\ tool_calls = <<>>

-----------------------------------------------------------------------------
(***************************************************************************)
(* The recording scripts: the loops of src/record_dataset.py (lines        *)
(* 86-135), src/record_dataset_multi.py (lines 161-212) and                *)
(* src/record_single_episode.py (lines 175-213).                           *)
(***************************************************************************)

\* Bounds: the value of NUM_EPISODES, and the frames an episode buffer holds.
MaxEpisodes == 2
MaxFrames == 2

MultiEpisodeRecorders == {"record_dataset", "record_dataset_multi"}
Recorders == MultiEpisodeRecorders \cup {"record_single_episode"}

\* Where `continue` and the end of the loop body lead: the test of the
\* while of the multi-episode scripts, the body of `while True`.
LoopHead == IF recorder \in MultiEpisodeRecorders THEN "while" ELSE "record"

\* What a recording script leaves alone.
notRecorderVars == <<teleopVars, compositeVars, featureVars, toolVars,
                     mergeVars>>

\* The keyboard listener's thread sets the flags of `events` at any moment
\* of the script: right arrow ends the loop in progress, left arrow asks to
\* record the episode again, escape asks to stop recording.
KeyPress ==
    /\ recorder # "none" /\ rpc # "done"
    /\ \E key \in {"right", "left", "esc"} :
          events' = [stop_recording |-> events.stop_recording \/ key = "esc",
                     rerecord_episode |-> events.rerecord_episode \/ key = "left",
                     exit_early |-> TRUE]
    /\ UNCHANGED <<recorder, rpc, NUM_EPISODES, episode_idx, episode_buffer,
                   num_episodes, last_call, rec_devices, rexc>>
    /\ UNCHANGED notRecorderVars

\* record_loop(...): it adds the frames of the loop to the episode buffer
\* when it is given the dataset, takes back exit_early, and returns; or a
\* device call in it raises and the exception ends the script, which has no
\* handler.
record_loop(with_dataset, next) ==
    \E frames \in 0 .. MaxFrames, out \in {"ok", "raise"} :
        /\ episode_buffer + frames <= MaxFrames
        /\ episode_buffer' = IF with_dataset THEN episode_buffer + frames
                                              ELSE episode_buffer
        /\ events' = [events EXCEPT !.exit_early = FALSE]
        /\ last_call' = "record_loop"
        /\ rexc' = IF out = "raise" THEN "record_loop" ELSE rexc
        /\ rpc' = IF out = "raise" THEN "done" ELSE next
        /\ UNCHANGED <<recorder, NUM_EPISODES, episode_idx, num_episodes,
                       rec_devices>>
        /\ UNCHANGED notRecorderVars

\* A step of the script that only moves on.
Goto(next) ==
    /\ rpc' = next
    /\ UNCHANGED <<recorder, NUM_EPISODES, episode_idx, events, episode_buffer,
                   num_episodes, last_call, rec_devices, rexc>>
    /\ UNCHANGED notRecorderVars

\* while episode_idx < NUM_EPISODES and not events["stop_recording"]:
\* record_dataset.py line 88, record_dataset_multi.py line 163.
RecWhileTest ==
    /\ recorder \in MultiEpisodeRecorders /\ rpc = "while"
    /\ Goto(IF episode_idx < NUM_EPISODES /\ ~events.stop_recording
            THEN "record" ELSE "robot_disconnect")

\* The record_loop with dataset=dataset: record_dataset.py lines 92-101,
\* record_dataset_multi.py lines 167-179, record_single_episode.py lines
\* 180-192.
RecordEpisode ==
    /\ recorder # "none" /\ rpc = "record"
    /\ record_loop(TRUE, IF recorder \in MultiEpisodeRecorders
                         THEN "reset_test" ELSE "stop_test")

\* Mutant of ResetTest: the multi-episode loop written with the `break` of
\* record_single_episode.py, leaving the loop as soon as stop_recording is
\* seen after a recording.
ResetTestBreaksOnStop ==
    /\ rpc = "reset_test"
    /\ Goto(IF events.stop_recording
            THEN "robot_disconnect"
            ELSE IF episode_idx < NUM_EPISODES - 1 \/ events.rerecord_episode
                 THEN "reset" ELSE "rerecord_test")

\* record_dataset.py line 105, record_dataset_multi.py line 182.
ResetTest ==
    /\ rpc = "reset_test"
    /\ Goto(IF /\ ~events.stop_recording
               /\ (episode_idx < NUM_EPISODES - 1 \/ events.rerecord_episode)
            THEN "reset" ELSE "rerecord_test")

\* The record_loop without dataset: record_dataset.py lines 108-116,
\* record_dataset_multi.py lines 184-195.
ResetEnvironment ==
    /\ rpc = "reset"
    /\ record_loop(FALSE, "rerecord_test")

\* record_single_episode.py lines 195-197: if events["stop_recording"]: break
StopTest ==
    /\ rpc = "stop_test"
    /\ Goto(IF events.stop_recording THEN "robot_disconnect" ELSE "rerecord_test")

\* Mutant of Rerecord: the episode recorded again is counted.
RerecordCounts ==
    /\ rpc = "rerecord_test"
    /\ IF events.rerecord_episode
       THEN /\ events' = [events EXCEPT !.rerecord_episode = FALSE,
                                        !.exit_early = FALSE]
            /\ episode_buffer' = 0
            /\ last_call' = "clear_episode_buffer"
            /\ rpc' = LoopHead
            /\ episode_idx' = episode_idx + 1
            /\ UNCHANGED <<recorder, NUM_EPISODES, num_episodes,
                           rec_devices, rexc>>
            /\ UNCHANGED notRecorderVars
       ELSE Goto("save")

\* if events["rerecord_episode"]: the flags are reset, the buffer is
\* cleared, continue.  record_dataset.py lines 119-125,
\* record_dataset_multi.py lines 198-203, record_single_episode.py lines
\* 199-204.
Rerecord ==
    /\ rpc = "rerecord_test"
    /\ IF events.rerecord_episode
       THEN /\ events' = [events EXCEPT !.rerecord_episode = FALSE,
                                        !.exit_early = FALSE]
            /\ episode_buffer' = 0
            /\ last_call' = "clear_episode_buffer"
            /\ rpc' = LoopHead
            /\ UNCHANGED <<recorder, NUM_EPISODES, episode_idx, num_episodes,
                           rec_devices, rexc>>
            /\ UNCHANGED notRecorderVars
       ELSE Goto("save")

\* dataset.save_episode(): the buffer becomes one more episode of the
\* dataset.  record_dataset.py line 128, record_dataset_multi.py line 206,
\* record_single_episode.py lines 207-208 (followed by break).
SaveEpisode ==
    /\ rpc = "save"
    /\ num_episodes' = num_episodes + 1
    /\ episode_buffer' = 0
    /\ last_call' = "save_episode"
    /\ rpc' = IF recorder \in MultiEpisodeRecorders
              THEN "increment" ELSE "robot_disconnect"
    /\ UNCHANGED <<recorder, NUM_EPISODES, episode_idx, events, rec_devices,
                   rexc>>
    /\ UNCHANGED notRecorderVars

\* episode_idx += 1: record_dataset.py line 129, record_dataset_multi.py
\* line 207.
Increment ==
    /\ rpc = "increment"
    /\ episode_idx' = episode_idx + 1
    /\ rpc' = "while"
    /\ UNCHANGED <<recorder, NUM_EPISODES, events, episode_buffer,
                   num_episodes, last_call, rec_devices, rexc>>
    /\ UNCHANGED notRecorderVars

\* dev.disconnect() after the loop: it returns, or it raises and the
\* exception ends the script.
RecDisconnect(dev, next) ==
    \E out \in {"ok", "raise"} :
        /\ rec_devices' = [rec_devices EXCEPT
                              ![dev] = IF out = "ok" THEN "disconnected"
                                                     ELSE "failed"]
        /\ last_call' = "disconnect"
        /\ rexc' = IF out = "raise" THEN "disconnect" ELSE rexc
        /\ rpc' = IF out = "raise" THEN "done" ELSE next
        /\ UNCHANGED <<recorder, NUM_EPISODES, episode_idx, events,
                       episode_buffer, num_episodes>>
        /\ UNCHANGED notRecorderVars

\* robot.disconnect(): record_dataset.py line 133, record_dataset_multi.py
\* line 211, record_single_episode.py line 212.
RecRobotDisconnect ==
    /\ recorder # "none" /\ rpc = "robot_disconnect"
    /\ RecDisconnect("robot", "teleop_disconnect")

\* teleop.disconnect(): record_dataset.py line 134, record_dataset_multi.py
\* line 212, record_single_episode.py line 213.
RecTeleopDisconnect ==
    /\ recorder # "none" /\ rpc = "teleop_disconnect"
    /\ RecDisconnect("teleop", IF recorder = "record_dataset"
                               THEN "push_to_hub" ELSE "done")

\* dataset.push_to_hub(): record_dataset.py line 135.
PushToHub ==
    /\ rpc = "push_to_hub"
    /\ last_call' = "push_to_hub"
    /\ rpc' = "done"
    /\ UNCHANGED <<recorder, NUM_EPISODES, episode_idx, events, episode_buffer,
                   num_episodes, rec_devices, rexc>>
    /\ UNCHANGED notRecorderVars

\* A recording script when it reaches its loop: robot and teleop are
\* connected, the dataset is new, the listener runs.
RecorderInit ==
    /\ TeleopInit /\ pair2 = FALSE
    /\ NoComposite /\ NoFeatures /\ NoTool /\ NoMerge
    /\ recorder \in Recorders
    /\ rpc = LoopHead
    /\ NUM_EPISODES \in IF recorder \in MultiEpisodeRecorders
                        THEN 1 .. MaxEpisodes ELSE {0}
    /\ episode_idx = 0
    /\ events = NoEvents
    /\ episode_buffer = 0
    /\ num_episodes = 0
    /\ last_call = "connect"
    /\ rec_devices = [dev \in {"robot", "teleop"} |-> "connected"]
    /\ rexc = "none"

RecorderNext ==
    \/ KeyPress
    \/ RecWhileTest
    \/ RecordEpisode
    \/ ResetTest
    \/ ResetEnvironment
    \/ StopTest
    \/ Rerecord
    \/ SaveEpisode
    \/ Increment
    \/ RecRobotDisconnect
    \/ RecTeleopDisconnect
    \/ PushToHub

RecorderSpec == RecorderInit /\ [][RecorderNext]_vars

\* C29: in the multi-episode scripts the episode counter changes only by
\* one and only when the script's latest call is save_episode(); and the
\* script's step at the re-record test with rerecord_episode set resets
\* rerecord_episode and exit_early, empties the episode buffer and goes
\* back to the loop test, with no episode saved and the counter as it was.
C29_CounterFollowsSave ==
    [][(recorder \in MultiEpisodeRecorders =>
          /\ episode_idx' # episode_idx =>
                /\ last_call = "save_episode" /\ last_call' = last_call
                /\ episode_idx' = episode_idx + 1
          /\ (rpc = "rerecord_test" /\ events.rerecord_episode /\ rpc' # rpc) =>
                /\ ~events'.rerecord_episode /\ ~events'.exit_early
                /\ episode_buffer' = 0
                /\ last_call' = "clear_episode_buffer"
                /\ rpc' = "while"
                /\ num_episodes' = num_episodes
                /\ episode_idx' = episode_idx)]_vars

\* C29 witness: the second episode of a multi-episode script was recorded,
\* re-recording was asked for, and the script is back at the loop test with
\* the buffer empty, one episode saved and the counter at one.
C29_Witness ==
    /\ recorder \in MultiEpisodeRecorders
    /\ rpc = "while" /\ last_call = "clear_episode_buffer"
    /\ episode_idx = 1 /\ num_episodes = 1
    /\ episode_buffer = 0
    /\ ~events.rerecord_episode

\* C30: record_single_episode never saves more than one episode; its step
\* after a recording goes to the cleanup without saving when stop_recording
\* is set, clears the buffer and records again when rerecord_episode is
\* set, and else saves one episode and goes to the cleanup; and when the
\* script is over, disconnect() has been called on follower and leader.
C30_SingleEpisodeThenDisconnect ==
    /\ [](recorder = "record_single_episode" =>
             /\ num_episodes <= 1
             /\ rpc = "done" =>
                   \A dev \in DOMAIN rec_devices : rec_devices[dev] # "connected")
    /\ [][(recorder = "record_single_episode" /\ rpc' # rpc) =>
             /\ (rpc = "stop_test" /\ events.stop_recording) =>
                   (rpc' = "robot_disconnect" /\ num_episodes' = num_episodes)
             /\ (rpc = "rerecord_test" /\ events.rerecord_episode) =>
                   /\ rpc' = "record" /\ episode_buffer' = 0
                   /\ num_episodes' = num_episodes
             /\ (rpc = "rerecord_test" /\ ~events.rerecord_episode) =>
                   rpc' = "save"
             /\ rpc = "save" =>
                   (rpc' = "robot_disconnect" /\ num_episodes' = num_episodes + 1)
             /\ rpc' = "robot_disconnect" => rpc \in {"stop_test", "save"}]_vars

-----------------------------------------------------------------------------
(***************************************************************************)
(* src/merge_single_episodes.py: validate_single_episode_datasets (lines   *)
(* 68-105) and merge_single_episodes (lines 108-167).                      *)
(***************************************************************************)

\* Bounds: the number of input directories, and the episodes a dataset on
\* disk holds.
MaxDirs == 3
MaxTotalEpisodes == 2

\* What LeRobotDataset(repo_id=path.name, root=...) gives for a directory:
\* an exception, or a dataset with some number of episodes.
Loads ==
    {[ok |-> FALSE, total_episodes |-> 0]}
        \cup {[ok |-> TRUE, total_episodes |-> n] : n \in 0 .. MaxTotalEpisodes}

\* The lists of at most n input directories: the i-th is named i.
DirLists(n) ==
    UNION {{[i \in 1 .. len |-> [name |-> i, load |-> loads[i]]] :
               loads \in [1 .. len -> Loads]} : len \in 0 .. n}

\* The LeRobotDataset object loaded from a directory.
Dataset(path) == [name |-> path.name, total_episodes |-> path.load.total_episodes]

\* Mutant of validate_from: the number of episodes is not looked at.
RECURSIVE validate_any_size_from(_, _, _)
validate_any_size_from(dataset_paths, i, found) ==
    IF i > Len(dataset_paths) THEN found
    ELSE IF ~dataset_paths[i].load.ok
    THEN validate_any_size_from(dataset_paths, i + 1, found)
    ELSE validate_any_size_from(dataset_paths, i + 1,
                                Append(found, Dataset(dataset_paths[i])))

\* The loop of validate_single_episode_datasets (lines 80-103) from the
\* i-th path on, `found` being the list so far: a load that raises is
\* caught and skipped, a dataset whose total_episodes is not 1 is skipped,
\* the others are appended.
RECURSIVE validate_from(_, _, _)
validate_from(dataset_paths, i, found) ==
    IF i > Len(dataset_paths) THEN found
    ELSE IF ~dataset_paths[i].load.ok
    THEN validate_from(dataset_paths, i + 1, found)
    ELSE IF dataset_paths[i].load.total_episodes # 1
    THEN validate_from(dataset_paths, i + 1, found)
    ELSE validate_from(dataset_paths, i + 1,
                       Append(found, Dataset(dataset_paths[i])))

\* validate_single_episode_datasets(dataset_paths), lines 68-105.
validate_single_episode_datasets(dataset_paths) ==
    validate_from(dataset_paths, 1, <<>>)

\* What merge_single_episodes leaves alone.
notMergeVars == <<teleopVars, compositeVars, featureVars, toolVars,
                  recorderVars>>

\* Lines 123-138: nothing to do without directories, without a valid
\* dataset, or with one only; else the datasets are on their way to
\* merge_datasets.
ValidateDatasets ==
    /\ merge_pc = "start"
    /\ IF episode_dirs = <<>>
       THEN merge_pc' = "done" /\ UNCHANGED datasets
       ELSE LET valid == validate_single_episode_datasets(episode_dirs)
            IN  /\ datasets' = valid
                /\ merge_pc' = IF Len(valid) <= 1 THEN "done" ELSE "merge"
    /\ UNCHANGED <<episode_dirs, push_to_hub, merged_with, pushed, merge_exc>>
    /\ UNCHANGED notMergeVars

\* Lines 147-157 and 165-167: merge_datasets(datasets=datasets, ...)
\* returns, or raises and the exception is logged and raised again.
MergeDatasets ==
    /\ merge_pc = "merge"
    /\ merged_with' = datasets
    /\ \E out \in {"ok", "raise"} :
          /\ merge_exc' = IF out = "raise" THEN "merge_datasets" ELSE merge_exc
          /\ merge_pc' = IF out = "raise" \/ ~push_to_hub THEN "done" ELSE "push"
    /\ UNCHANGED <<episode_dirs, push_to_hub, datasets, pushed>>
    /\ UNCHANGED notMergeVars

\* Lines 160-163 and 165-167: LeRobotDataset(...).push_to_hub() returns, or
\* raises and the exception is logged and raised again.
PushMerged ==
    /\ merge_pc = "push"
    /\ pushed' = TRUE
    /\ \E out \in {"ok", "raise"} :
          merge_exc' = IF out = "raise" THEN "push_to_hub" ELSE merge_exc
    /\ merge_pc' = "done"
    /\ UNCHANGED <<episode_dirs, push_to_hub, datasets, merged_with>>
    /\ UNCHANGED notMergeVars

\* merge_single_episodes(episode_dirs, output_repo_id, output_root,
\* push_to_hub) is called.
MergeInit ==
    /\ TeleopInit /\ pair2 = FALSE
    /\ NoComposite /\ NoFeatures /\ NoTool /\ NoRecorder
    /\ merge_pc = "start"
    /\ episode_dirs \in DirLists(MaxDirs)
    /\ push_to_hub \in BOOLEAN
    /\ datasets = <<>>
    /\ merged_with = NotMerged
    /\ pushed = FALSE
    /\ merge_exc = "none"

MergeNext == ValidateDatasets \/ MergeDatasets \/ PushMerged

MergeSpec == MergeInit /\ [][MergeNext]_vars

\* Is the directory a valid input: it loads, and holds exactly one episode.
IsValidDir(path) == path.load.ok /\ path.load.total_episodes = 1

\* The names of the valid input directories, in input order.
ValidNames ==
    LET valid == SelectSeq(episode_dirs, IsValidDir)
    IN  [i \in DOMAIN valid |-> valid[i].name]

\* C31: the list merge_datasets was called with is the datasets of the
\* directories that loaded and hold exactly one episode, in input order,
\* and there are at least two of them; and when merge_single_episodes is
\* over with fewer than two such directories, merge_datasets and
\* push_to_hub were not called (with two or more, merge_datasets was).
C31_MergesValidSingles ==
    /\ merged_with # NotMerged =>
          /\ Len(merged_with) >= 2
          /\ [i \in DOMAIN merged_with |-> merged_with[i].name] = ValidNames
          /\ \A i \in DOMAIN merged_with : merged_with[i].total_episodes = 1
    /\ Len(ValidNames) <= 1 => (merged_with = NotMerged /\ ~pushed)
    /\ (merge_pc = "done" /\ Len(ValidNames) >= 2) => merged_with # NotMerged
    /\ pushed => (merged_with # NotMerged /\ push_to_hub)

\* C31 witness: of three directories the first holds two episodes and the
\* other two one each; merge_datasets was called with these two.
C31_Witness ==
    /\ Len(episode_dirs) = 3
    /\ episode_dirs[1].load.ok /\ episode_dirs[1].load.total_episodes = 2
    /\ merged_with # NotMerged
    /\ Len(merged_with) = 2
    /\ merged_with[1].name = 2 /\ merged_with[2].name = 3

\* C32: when calibrate_arm has ended with an arm created, it has called
\* connect(calibrate=False), calibrate() and disconnect() on it, in that
\* order and once each, and the disconnect is the last call made.
C32_CalibrateSequence ==
    (tool = "calibrate_arm" /\ tool_pc = "done" /\ tool_arm # NoArm) =>
        /\ Len(tool_calls) = 3
        /\ tool_calls[1].op = "connect" /\ tool_calls[1].arg = "calibrate=False"
        /\ tool_calls[2].op = "calibrate"
        /\ tool_calls[3].op = "disconnect"

\* C33: a constructed composite none of whose members is connected, as is
\* every composite on which connect() was never called, reports
\* is_connected = false, whatever its arms and cameras, none at all
\* included.
C33_UnconnectedReportsFalse ==
    (built /\ connected = {}) => ~is_connected

-----------------------------------------------------------------------------
(* Further claims about operate_robot_pair (src/teleoperate.py).           *)

\* C34: when the get_observation of line 37 raised, the exception has left
\* operate_robot_pair and the session thread is over; that call is the
\* last call made on the pair's devices, and none of the calls made on
\* them is a send_action, a get_action or a disconnect.
C34_SnapshotFailureEscapes ==
    \A p \in Pairs : \A i \in DOMAIN calls[p] :
        (calls[p][i].line = 37 /\ calls[p][i].out = "raise") =>
            /\ i = Len(calls[p])
            /\ \A j \in DOMAIN calls[p] :
                  /\ calls[p][j].line \notin {43, 45, 51, 52, 53}
                  /\ calls[p][j].op \notin {"send_action", "get_action", "disconnect"}
            /\ pc[p] = "dead"
            /\ escaped[p] = 37

\* C34 witness: of two sessions the first ended by the exception of its
\* get_observation, the second has completed a loop iteration.
C34_Witness ==
    /\ pair2
    /\ pc[1] = "dead" /\ escaped[1] = 37
    /\ calls[1][Len(calls[1])].line = 37
    /\ calls[1][Len(calls[1])].out = "raise"
    /\ Iterations(2) >= 1

\* C35: once a session has called disconnect() on a device, no later call
\* is made on that device (no get_action, no send_action, no second
\* disconnect), whatever the outcome of the disconnect; and a disconnect of
\* the leader (line 53) is always preceded by a disconnect of the follower
\* (line 52).
C35_NoCallAfterDisconnect ==
    \A p \in Pairs : \A i \in DOMAIN calls[p] :
        calls[p][i].op = "disconnect" =>
            /\ \A j \in (i + 1)..Len(calls[p]) : calls[p][j].dev # calls[p][i].dev
            /\ calls[p][i].dev = "teleop_device" =>
                  \E k \in 1..(i - 1) :
                      /\ calls[p][k].dev = "robot"
                      /\ calls[p][k].op = "disconnect"

\* C35 witness: a session that went round its loop, then disconnected the
\* follower and the leader, and returned.
C35_Witness ==
    \E p \in Pairs :
        /\ pc[p] = "done"
        /\ Iterations(p) >= 1
        /\ Called(p, 43) /\ Called(p, 45)
        /\ \E i \in At(p, 52) : \E j \in At(p, 53) :
              /\ i < j
              /\ calls[p][i].out = "ok" /\ calls[p][j].out = "ok"

----------------------------------------------------------------------------
(* The two ways of splitting a flat mapping among the arms.                *)

\* The arms to which the follower's filter (lines 141-145) and the leader's
\* first-match assignment (lines 107-113) give different local mappings,
\* for the mapping the composite was given.
SplitDifferently ==
    {n \in ArmSet : ArmAction(n, given) # ArmFeedbacks(given)[n]}

\* A key of the given mapping starts with the prefixes of two arms.
KeyUnderTwoPrefixes ==
    \E k \in DOMAIN given : \E n1, n2 \in ArmSet :
        /\ n1 # n2
        /\ StartsWith(k, Prefix(n1))
        /\ StartsWith(k, Prefix(n2))

\* C36: when the follower has run send_action or the leader send_feedback
\* on a flat mapping, and the arm identifiers do not collide, the local
\* mapping each called arm received is the one the other composite's scheme
\* computes for that arm from the same flat mapping (filter by prefix on
\* the follower, first match and break on the leader), and, no arm having
\* raised, an arm was called exactly when that mapping is not empty; and
\* whenever the two schemes give some arm different local mappings, a key
\* of the flat mapping starts with the prefixes of two arms.
C36_SplitsAgree ==
    (SentAction \/ SentFeedback) =>
        /\ NonColliding =>
              /\ SplitDifferently = {}
              /\ \A n \in ArmSet :
                    LET other == IF SentAction
                                 THEN ArmFeedbacks(given)[n]
                                 ELSE ArmAction(n, given)
                    IN  /\ \A i \in CallsOn(n) : member_calls[i].arg = other
                        /\ ~raised => (CallsOn(n) # {} <=> other # EmptyDict)
        /\ SplitDifferently # {} => KeyUnderTwoPrefixes

\* C36 witness: a leader with two arms whose identifiers do not collide has
\* run send_feedback on a mapping with keys of both arms, and called both.
C36_Witness ==
    /\ SentFeedback
    /\ NonColliding
    /\ Len(arms) = 2
    /\ \A n \in ArmSet : CallsOn(n) # {} /\ ArmAction(n, given) # EmptyDict

\* With colliding identifiers the two schemes do give different mappings.
C36_CollidingDiffer ==
    /\ SentAction
    /\ ~NonColliding
    /\ SplitDifferently # {}

----------------------------------------------------------------------------
(* Further claims about the recording scripts.                             *)

\* C37: in the multi-episode scripts the number of episodes saved is the
\* episode counter (one more than the counter between save_episode() and
\* the `episode_idx += 1` that follows it) and is never more than
\* NUM_EPISODES; after a recording during which stop_recording was set, the
\* script skips the reset phase and, rerecord_episode not being set, saves
\* the episode, and it leaves its loop only at the loop test; whereas
\* record_single_episode, seeing stop_recording after a recording, goes to
\* the cleanup with no episode saved.
C37_StoppedEpisodeSaved ==
    /\ [](recorder \in MultiEpisodeRecorders =>
             /\ num_episodes = episode_idx + (IF rpc = "increment" THEN 1 ELSE 0)
             /\ num_episodes <= NUM_EPISODES
             /\ episode_idx <= NUM_EPISODES)
    /\ [][((recorder \in MultiEpisodeRecorders /\ rpc' # rpc) =>
             /\ (rpc = "reset_test" /\ events.stop_recording) =>
                   rpc' = "rerecord_test"
             /\ (rpc = "rerecord_test" /\ ~events.rerecord_episode) =>
                   rpc' = "save"
             /\ rpc = "save" =>
                   /\ num_episodes' = num_episodes + 1
                   /\ rpc' = "increment"
             /\ rpc = "increment" =>
                   (episode_idx' = episode_idx + 1 /\ rpc' = "while")
             /\ rpc' = "robot_disconnect" => rpc = "while")]_vars
    /\ [][((/\ recorder = "record_single_episode" /\ rpc' # rpc
             /\ rpc = "stop_test" /\ events.stop_recording) =>
                 /\ rpc' = "robot_disconnect"
                 /\ num_episodes' = num_episodes
                 /\ num_episodes = 0)]_vars

\* C37 witness: a multi-episode script has just saved its last episode with
\* stop_recording set and no key pressed since the recording returned: the
\* key was pressed during the recording (pressed before the loop test it
\* would have ended the loop, and no reset phase follows the last episode
\* unless it is recorded again).
C37_Witness ==
    /\ recorder \in MultiEpisodeRecorders
    /\ rpc = "increment" /\ last_call = "save_episode"
    /\ episode_idx = NUM_EPISODES - 1
    /\ num_episodes = NUM_EPISODES
    /\ events.stop_recording /\ ~events.rerecord_episode /\ ~events.exit_early

\* record_single_episode is over with stop_recording set and nothing saved.
C37_SingleDiscards ==
    /\ recorder = "record_single_episode"
    /\ rpc = "done" /\ rexc = "none"
    /\ events.stop_recording
    /\ num_episodes = 0

====
